---- MODULE Spec2Model ----
(***************************************************************************)
(* Model of the redaction tool of redact_unified.py: the RegionStore       *)
(* (regions, protect, bounded undo/redo history, autosave), the files of   *)
(* JSONStore (atomic writes, timestamped snapshots, lookup of the latest   *)
(* file) and the redaction pass apply_redactions.                          *)
(***************************************************************************)
EXTENDS Integers, Sequences, FiniteSets, TLC

VARIABLES
    pdf_stem,       \* RegionStore.pdf_stem : the document id, a file name in pieces
    regions,        \* RegionStore.regions : dict str(page) -> list of bbox
    protect,        \* RegionStore.protect : dict str(page) -> list of bbox
    history,        \* RegionStore.history : list of snapshots
    future,         \* RegionStore.future  : list of snapshots
    last_autosave,  \* RegionStore.last_autosave
    now,            \* time.time(), in whole seconds
    disk,           \* the files of JSONStore.DATA_DIR : name -> content
    ret,            \* what the last call returned ("None", "True", "False", "raise")
    lastOp,         \* the last call: "add", "remove", "update", "undo", "redo"
    ops,            \* number of calls made so far
    muts,           \* number of add, remove and update calls made so far
    phase,          \* "mut": only mutations since the run began; "undo": the run was
                    \* followed by undo() calls only; "redo": those by redo() calls only;
                    \* "mixed": anything else
    runPre,         \* the states before each mutation of the current run of mutations
    runPost,        \* the state after the last mutation of the current run
    nUndo,          \* undo() calls counted in phase "undo"
    nUndoOk,        \* those of them that returned True
    nRedo,          \* redo() calls counted in phase "redo"
    dropped,        \* len(future) just before the last mutation cleared it
    target,         \* the <<page, index, kind>> given to the last remove or update call
    running,        \* the window is open
    query,          \* the <<stem, purpose>> of the last find_latest_file call
    found,          \* what that call returned
    changedBy,      \* the last call that changed {regions, protect}
    changedAt,      \* the time of that call
    writesSince,    \* write_atomic calls on the autosave file since then, its own included
    savedClean,     \* document id -> the state its last save() wrote, while no call
                    \* has changed the store of that document since
    saves,          \* the save() calls that returned: their file and the state written
    doc,            \* the opened PDF: its pages, each a list of text lines
    patterns,       \* {'keywords': [...], 'passages': [...]}
    exclusions,     \* the exclusion strings handed to apply_redactions
    regex_patterns, \* the regular expressions handed to apply_redactions
    use_ocr,        \* OCR search requested (and available)
    failing,        \* the <<page, area>> whose context extraction raises
    burn,           \* the redact annotations added by the last pass
    all_patterns,   \* the trigger list the last pass searched for
    pc,             \* "edit" before the pass, "done" after it
    shown,          \* the page and the rectangles blacked out by the last preview made
                    \* since the store changed
    drawn,          \* the <<page, bbox, kind>> given to the add calls, in their order
    args,           \* the command line as argparse parsed it
    cli_pc,         \* where main() stands
    exit_status,    \* the exit status of the process once it ended
    stderr,         \* the message written to stderr
    reads,          \* the files main() has read
    written,        \* the output PDF has been written
    variant,        \* the program run: "4" is redact-4_GUI.py, "5a" redact-5a_GUI.py
    stack,          \* HistoryManager.stack
    redo_stack,     \* HistoryManager.redo_stack
    dirty,          \* PDFRedactorGUI.dirty
    timers,         \* pending root.after(3000, self._flush_cache_if_dirty) callbacks
    current_tool,   \* PDFRedactorGUI.current_tool
    edit_region,    \* PDFRedactorGUI.edit_region: the Region object being edited
    drag_info,      \* PDFRedactorGUI.drag_info
    beforeDrag,     \* the mouse button is down, and the state when it last went down
    gui_regions,    \* PDFRedactorGUI.regions : list of Region
    drawing_mode,   \* PDFRedactorGUI.drawing_mode of redact_unified.py
    tool_var,       \* the Tool Mode radio buttons: the name of the one switched on
    mode_var,       \* the Draw Mode radio buttons: the value of the one switched on
    presets         \* PDFRedactorGUI.presets of redact_unified.py

storeVars == <<pdf_stem, regions, protect, history, future, last_autosave, now, disk>>
ghostVars == <<ret, lastOp, ops, muts, phase, runPre, runPost, nUndo, nUndoOk, nRedo, dropped,
               target>>
runVars == <<phase, runPre, runPost, nUndo, nUndoOk, nRedo, dropped>>
persistVars == <<running, query, found, changedBy, changedAt, writesSince, savedClean, saves>>
engineVars == <<doc, patterns, exclusions, regex_patterns, use_ocr, failing, burn,
                all_patterns, pc>>
previewVars == <<shown, drawn>>
cliVars == <<args, cli_pc, exit_status, stderr, reads, written>>
variantVars == <<variant, stack, redo_stack, dirty, timers, current_tool, edit_region,
                 drag_info, beforeDrag, gui_regions>>
toolVars == <<drawing_mode, tool_var, mode_var, presets>>
vars == <<storeVars, ghostVars, persistVars, engineVars, previewVars, cliVars, variantVars,
          toolVars>>

(***************************************************************************)
(* Bounds of the model and program constants                               *)
(***************************************************************************)
MaxOps == 6          \* calls per behaviour of Spec
MaxMut == 2          \* add, remove and update calls per behaviour of Spec
MaxAdds == 51        \* consecutive add calls per behaviour of SpecEvict
MAX_HISTORY == 50

Pages == {0, 1}
Kinds == {"redact", "exclude", "protect"}
Boxes == {<<10, 10, 60, 30>>, <<0, 0, 200, 40>>}
Indexes == {-1, 0, 1}
\* what the coordinate fields of the region panel can hold: any four numbers
EntryBoxes == Boxes \cup {<<10, 10, 5, 5>>}
WriteOutcomes == {"none", "replace"}

EmptyDict == [k \in {} |-> <<>>]

(***************************************************************************)
(* JSONStore                                                               *)
(***************************************************************************)
\* A file name is the sequence of its pieces: the pieces of the stem, "_", the
\* purpose, "_", a time stamp or "autosave", ".json".  A stem is such a sequence too:
\* the stem report_regions is <<"report", "_", "regions">>.
Report == <<"report">>

\* DATA_DIR / f"{stem}_{purpose}_autosave.json"
AutosavePath(stem, purpose) == stem \o <<"_", purpose, "_", "autosave", ".json">>

\* path.with_suffix(path.suffix + ".tmp")
Tmp(path) == Append(path, ".tmp")

\* a file holding the whole JSON text of obj, or only a part of it, last written at t
Whole(obj, t) == [data |-> obj, whole |-> TRUE, mtime |-> t]
Partial(obj, t) == [data |-> obj, whole |-> FALSE, mtime |-> t]

\* dict without a key
Without(d, key) == [k \in (DOMAIN d) \ {key} |-> d[k]]

\* d[key] = value, whether or not key exists
Put(d, key, value) == [k \in (DOMAIN d) \cup {key} |-> IF k = key THEN value ELSE d[k]]

\* write_atomic(path, obj) at time t; fail names the step that raises, "none" when
\* all succeed
write_atomic(d, path, obj, t, fail) ==
    CASE fail = "open"    -> d
      [] fail = "dump"    -> Put(d, Tmp(path), Partial(obj, t))
      [] fail = "replace" -> Put(d, Tmp(path), Whole(obj, t))
      [] OTHER            -> Put(Without(d, Tmp(path)), path, Whole(obj, t))

(***************************************************************************)
(* RegionStore                                                             *)
(***************************************************************************)
\* the store object: the fields of the dataclass
Store == [pdf_stem |-> pdf_stem, regions |-> regions, protect |-> protect,
          history |-> history, future |-> future, last_autosave |-> last_autosave]

State == [regions |-> regions, protect |-> protect]

EmptyState == [regions |-> EmptyDict, protect |-> EmptyDict]

\* d.setdefault(key, []).append(bbox)
SetDefaultAppend(d, key, bbox) ==
    IF key \in DOMAIN d THEN [d EXCEPT ![key] = Append(@, bbox)]
    ELSE Put(d, key, <<bbox>>)

\* d.get(key, [])
Get(d, key) == IF key \in DOMAIN d THEN d[key] ELSE <<>>

\* arr.pop(index), index counted from 0
Pop(arr, index) ==
    [i \in 1..(Len(arr) - 1) |-> IF i <= index THEN arr[i] ELSE arr[i + 1]]

\* arr[:-1]
Front(arr) == SubSeq(arr, 1, Len(arr) - 1)

\* arr[-1]
Last(arr) == arr[Len(arr)]

\* _snapshot() that leaves future as it is
_snapshot_keep_future(s) ==
    LET h1 == Append(s.history, [regions |-> s.regions, protect |-> s.protect])
    IN  [s EXCEPT !.history = IF Len(h1) > MAX_HISTORY THEN Tail(h1) ELSE h1]

\* _snapshot() that evicts the newest snapshot, not the oldest
_snapshot_evict_newest(s) ==
    LET h1 == Append(s.history, [regions |-> s.regions, protect |-> s.protect])
    IN  [s EXCEPT !.history = IF Len(h1) > MAX_HISTORY THEN Front(h1) ELSE h1,
                  !.future = <<>>]

\* _snapshot() without the eviction at MAX_HISTORY
_snapshot_uncapped(s) ==
    [s EXCEPT !.history = Append(s.history, [regions |-> s.regions, protect |-> s.protect]),
              !.future = <<>>]

\* _snapshot(): push a copy of {regions, protect}, evict the oldest, clear future
_snapshot(s) ==
    LET h1 == Append(s.history, [regions |-> s.regions, protect |-> s.protect])
    IN  [s EXCEPT !.history = IF Len(h1) > MAX_HISTORY THEN Tail(h1) ELSE h1,
                  !.future = <<>>]

\* autosave(force) at time t; fail is the step of write_atomic that raises
autosave(s, d, t, force, fail) ==
    IF force \/ t - s.last_autosave > 5
    THEN [s |-> IF fail = "none" THEN [s EXCEPT !.last_autosave = t] ELSE s,
          disk |-> write_atomic(d, AutosavePath(s.pdf_stem, "regions"),
                                [regions |-> s.regions, protect |-> s.protect], t, fail),
          raised |-> fail # "none"]
    ELSE [s |-> s, disk |-> d, raised |-> FALSE]

add(s, d, t, page, bbox, kind, fail) ==
    LET s1 == _snapshot(s)
        s2 == IF kind = "protect"
              THEN [s1 EXCEPT !.protect = SetDefaultAppend(s1.protect, page, bbox)]
              ELSE [s1 EXCEPT !.regions = SetDefaultAppend(s1.regions, page, bbox)]
        a  == autosave(s2, d, t, FALSE, fail)
    IN  [s |-> a.s, disk |-> a.disk, ret |-> IF a.raised THEN "raise" ELSE "None"]

\* remove() that takes a negative index as list.pop does: counted from the end
remove_negative_index(s, d, t, page, index, kind, fail) ==
    LET s1  == _snapshot(s)
        arr == Get(IF kind = "protect" THEN s1.protect ELSE s1.regions, page)
        at  == IF index < 0 THEN Len(arr) + index ELSE index
    IN  IF 0 <= at /\ at < Len(arr)
        THEN LET s2 == IF kind = "protect"
                       THEN [s1 EXCEPT !.protect[page] = Pop(arr, at)]
                       ELSE [s1 EXCEPT !.regions[page] = Pop(arr, at)]
                 a  == autosave(s2, d, t, TRUE, fail)
             IN  [s |-> a.s, disk |-> a.disk,
                  ret |-> IF a.raised THEN "raise" ELSE "True"]
        ELSE [s |-> s1, disk |-> d, ret |-> "False"]

remove(s, d, t, page, index, kind, fail) ==
    LET s1  == _snapshot(s)
        arr == Get(IF kind = "protect" THEN s1.protect ELSE s1.regions, page)
    IN  IF 0 <= index /\ index < Len(arr)
        THEN LET s2 == IF kind = "protect"
                       THEN [s1 EXCEPT !.protect[page] = Pop(arr, index)]
                       ELSE [s1 EXCEPT !.regions[page] = Pop(arr, index)]
                 a  == autosave(s2, d, t, TRUE, fail)
             IN  [s |-> a.s, disk |-> a.disk,
                  ret |-> IF a.raised THEN "raise" ELSE "True"]
        ELSE [s |-> s1, disk |-> d, ret |-> "False"]

update(s, d, t, page, index, bbox, kind, fail) ==
    LET s1  == _snapshot(s)
        arr == Get(IF kind = "protect" THEN s1.protect ELSE s1.regions, page)
    IN  IF 0 <= index /\ index < Len(arr)
        THEN LET s2 == IF kind = "protect"
                       THEN [s1 EXCEPT !.protect[page][index + 1] = bbox]
                       ELSE [s1 EXCEPT !.regions[page][index + 1] = bbox]
                 a  == autosave(s2, d, t, TRUE, fail)
             IN  [s |-> a.s, disk |-> a.disk,
                  ret |-> IF a.raised THEN "raise" ELSE "True"]
        ELSE [s |-> s1, disk |-> d, ret |-> "False"]

\* PDFRedactorGUI.toggle_region_kind(kind, index) on a page: remove() from the list of
\* kind, then add() to the other list; an exception of remove() ends the handler
toggle_region_kind(s, d, t, page, index, kind, fail) ==
    LET rect == Get(IF kind = "redact" THEN s.regions ELSE s.protect, page)[index + 1]
        r    == remove(s, d, t, page, index, kind, fail)
    IN  IF r.ret = "raise" THEN r
        ELSE add(r.s, r.disk, t, page, rect, IF kind = "redact" THEN "protect" ELSE "redact",
                 fail)

\* undo() that restores regions but not protect
undo_regions_only(s) ==
    IF s.history = <<>>
    THEN [s |-> s, ret |-> "False"]
    ELSE [s |-> [s EXCEPT !.future = Append(s.future, [regions |-> s.regions,
                                                       protect |-> s.protect]),
                          !.history = Front(s.history),
                          !.regions = Last(s.history).regions],
          ret |-> "True"]

\* undo() without the test for an empty history: history.pop() raises IndexError
undo_unguarded(s) ==
    IF s.history = <<>>
    THEN [s |-> [s EXCEPT !.future = Append(s.future, [regions |-> s.regions,
                                                       protect |-> s.protect])],
          ret |-> "raise"]
    ELSE [s |-> [s EXCEPT !.future = Append(s.future, [regions |-> s.regions,
                                                       protect |-> s.protect]),
                          !.history = Front(s.history),
                          !.regions = Last(s.history).regions,
                          !.protect = Last(s.history).protect],
          ret |-> "True"]

undo(s) ==
    IF s.history = <<>>
    THEN [s |-> s, ret |-> "False"]
    ELSE [s |-> [s EXCEPT !.future = Append(s.future, [regions |-> s.regions,
                                                       protect |-> s.protect]),
                          !.history = Front(s.history),
                          !.regions = Last(s.history).regions,
                          !.protect = Last(s.history).protect],
          ret |-> "True"]

\* redo() that reads the last entry of future without removing it
redo_peek(s) ==
    IF s.future = <<>>
    THEN [s |-> s, ret |-> "False"]
    ELSE [s |-> [s EXCEPT !.history = Append(s.history, [regions |-> s.regions,
                                                         protect |-> s.protect]),
                          !.regions = Last(s.future).regions,
                          !.protect = Last(s.future).protect],
          ret |-> "True"]

redo(s) ==
    IF s.future = <<>>
    THEN [s |-> s, ret |-> "False"]
    ELSE [s |-> [s EXCEPT !.history = Append(s.history, [regions |-> s.regions,
                                                         protect |-> s.protect]),
                          !.future = Front(s.future),
                          !.regions = Last(s.future).regions,
                          !.protect = Last(s.future).protect],
          ret |-> "True"]

(***************************************************************************)
(* Text: a string is a sequence of one-character strings                   *)
(***************************************************************************)
Range(seq) == {seq[i] : i \in 1..Len(seq)}

Min(S) == CHOOSE x \in S : \A y \in S : x <= y

Max(S) == CHOOSE x \in S : \A y \in S : x >= y

UpperCase == <<"A", "B", "C", "D", "E", "F", "G", "H", "I", "J", "K", "L", "M",
               "N", "O", "P", "Q", "R", "S", "T", "U", "V", "W", "X", "Y", "Z">>

LowerCase == <<"a", "b", "c", "d", "e", "f", "g", "h", "i", "j", "k", "l", "m",
               "n", "o", "p", "q", "r", "s", "t", "u", "v", "w", "x", "y", "z">>

LowerOf == [c \in Range(UpperCase) |-> LowerCase[CHOOSE i \in 1..26 : UpperCase[i] = c]]

\* str.lower()
lower(str) == [i \in 1..Len(str) |-> IF str[i] \in DOMAIN LowerOf THEN LowerOf[str[i]]
                                     ELSE str[i]]

\* needle in hay
str_in(needle, hay) ==
    \E i \in 0..(Len(hay) - Len(needle)) :
        \A k \in 1..Len(needle) : hay[i + k] = needle[k]

IsSpace(c) == c \in {" ", "\n"}

(***************************************************************************)
(* JSONStore: timestamped names and the lookup of the latest file          *)
(***************************************************************************)
\* what strftime(TIMESTAMP_FMT) prints in the minutes 0, 1, 2, ... of the clock
Stamps == <<"2024-01-01-0000", "2024-01-01-0001", "2024-01-01-0002", "2024-01-01-0003">>

\* datetime.now().strftime(TIMESTAMP_FMT) at time t: the minute, the seconds dropped
strftime(t) == Stamps[(t \div 60) + 1]

\* datetime.strptime(text, TIMESTAMP_FMT), in seconds
strptime(text) == 60 * ((CHOOSE i \in 1..Len(Stamps) : Stamps[i] = text) - 1)

\* DATA_DIR / f"{stem}_{purpose}_{ts}.json" at time t
get_timestamped_filename(stem, purpose, t) ==
    stem \o <<"_", purpose, "_", strftime(t), ".json">>

\* str.startswith(p)
IsPrefix(p, str) == Len(p) <= Len(str) /\ SubSeq(str, 1, Len(p)) = p

\* DATA_DIR.glob(f"{stem}_{purpose}_*.json")
glob(d, stem, purpose) ==
    {p \in DOMAIN d : IsPrefix(stem \o <<"_", purpose, "_">>, p) /\ Last(p) = ".json"}

\* _ts(p): the first time stamp found in p.stem, the file's mtime when there is none
_ts(d, p) ==
    LET hits == {i \in 1..(Len(p) - 1) : p[i] \in Range(Stamps)}
    IN  IF hits # {} THEN strptime(p[Min(hits)]) ELSE d[p].mtime

\* no path: None
NoPath == <<>>

\* find_latest_file(stem, purpose): the paths it can return; max() takes the first of
\* the files with the greatest key, in the order glob() happens to list them
find_latest_file(d, stem, purpose) ==
    IF AutosavePath(stem, purpose) \in DOMAIN d
    THEN {AutosavePath(stem, purpose)}
    ELSE LET files == glob(d, stem, purpose)
         IN  IF files = {} THEN {NoPath}
             ELSE {p \in files : \A q \in files : _ts(d, q) <= _ts(d, p)}

(***************************************************************************)
(* RegionStore: save and load                                              *)
(***************************************************************************)
\* save() at time t; fail is the step of write_atomic that raises
save(s, d, t, fail) ==
    [s |-> s,
     disk |-> write_atomic(d, get_timestamped_filename(s.pdf_stem, "regions", t),
                           [regions |-> s.regions, protect |-> s.protect], t, fail),
     ret |-> IF fail = "none" THEN "None" ELSE "raise"]

\* cls(pdf_stem)
NewStore(stem) ==
    [pdf_stem |-> stem, regions |-> EmptyDict, protect |-> EmptyDict,
     history |-> <<>>, future |-> <<>>, last_autosave |-> 0]

\* data.get(key, {})
DataGet(data, key) == IF key \in DOMAIN data THEN data[key] ELSE EmptyDict

\* load(pdf_stem), path being what find_latest_file returned; json.loads raises on
\* a file that does not hold a whole JSON text
load(d, stem, path) ==
    IF path # NoPath /\ path \in DOMAIN d
    THEN IF d[path].whole
         THEN [s |-> [NewStore(stem) EXCEPT !.regions = DataGet(d[path].data, "regions"),
                                            !.protect = DataGet(d[path].data, "protect")],
               ret |-> "None"]
         ELSE [s |-> NewStore(stem), ret |-> "raise"]
    ELSE [s |-> NewStore(stem), ret |-> "None"]

(***************************************************************************)
(* The PDF library: pages, search, text extraction, OCR, regular           *)
(* expressions                                                              *)
(***************************************************************************)
\* doc[page_num]
PageOf(d, page_num) == d[page_num + 1]

PageNums(d) == 0..(Len(d) - 1)

\* the rectangle of characters first..last of line l of a page
SpanRect(l, first, last) == <<30 + 2 * (first - 1), 20 * l, 30 + 2 * last, 20 * l + 10>>

\* the characters of a page in reading order, a line break after each line
RECURSIVE PageChars(_, _)
PageChars(page, l) ==
    IF l > Len(page) THEN <<>>
    ELSE [i \in 1..Len(page[l]) |-> [ch |-> page[l][i], line |-> l, col |-> i]]
         \o <<[ch |-> "\n", line |-> l, col |-> 0]>>
         \o PageChars(page, l + 1)

\* page.get_text()
get_text(page) == [i \in 1..Len(PageChars(page, 1)) |-> PageChars(page, 1)[i].ch]

\* the search compares without case and takes any white space for any other
CharMatches(c, n) == (lower(<<c>>) = lower(<<n>>)) \/ (IsSpace(c) /\ IsSpace(n))

MatchAt(hay, needle, i) ==
    \A k \in 1..Len(needle) : CharMatches(hay[i + k - 1].ch, needle[k])

\* the starts of the hits, found from the left, a hit never overlapping the one before
RECURSIVE HitStarts(_, _, _)
HitStarts(hay, needle, i) ==
    IF i + Len(needle) - 1 > Len(hay) THEN {}
    ELSE IF MatchAt(hay, needle, i)
         THEN {i} \cup HitStarts(hay, needle, i + Len(needle))
         ELSE HitStarts(hay, needle, i + 1)

\* the rectangles of the hit starting at i: one for each line it touches
HitRects(hay, n, i) ==
    LET glyphs == {j \in i..(i + n - 1) : hay[j].ch # "\n"}
        lines  == {hay[j].line : j \in glyphs}
    IN  {SpanRect(l, Min({hay[j].col : j \in {g \in glyphs : hay[g].line = l}}),
                     Max({hay[j].col : j \in {g \in glyphs : hay[g].line = l}}))
            : l \in lines}

\* page.search_for(needle, quads=False)
search_for(page, needle) ==
    IF needle = <<>> THEN {}
    ELSE LET hay == PageChars(page, 1)
         IN  UNION {HitRects(hay, Len(needle), i) : i \in HitStarts(hay, needle, 1)}

\* the characters of line l whose box lies inside rect
LineInBox(page, l, rect) ==
    LET cols == {c \in 1..Len(page[l]) :
                    /\ rect[1] <= SpanRect(l, c, c)[1] /\ SpanRect(l, c, c)[3] <= rect[3]
                    /\ rect[2] <= SpanRect(l, c, c)[2] /\ SpanRect(l, c, c)[4] <= rect[4]}
    IN  IF cols = {} THEN <<>> ELSE SubSeq(page[l], Min(cols), Max(cols))

\* page.get_textbox(rect): the text inside rect, lines separated by line breaks
RECURSIVE get_textbox(_, _, _)
get_textbox(page, rect, l) ==
    IF l > Len(page) THEN <<>>
    ELSE LET here == LineInBox(page, l, rect)
             rest == get_textbox(page, rect, l + 1)
         IN  IF here = <<>> THEN rest
             ELSE IF rest = <<>> THEN here
             ELSE here \o <<"\n">> \o rest

\* the words of a line: each starts after white space and ends before the next
WordStarts(line) ==
    {c \in 1..Len(line) : ~IsSpace(line[c]) /\ (c = 1 \/ IsSpace(line[c - 1]))}

WordEnd(line, first) ==
    Min({c \in first..Len(line) : c = Len(line) \/ IsSpace(line[c + 1])})

\* OCRProcessor.extract_text_with_positions(page): the words and their rectangles
extract_text_with_positions(page) ==
    UNION {{[text |-> SubSeq(page[l], first, WordEnd(page[l], first)),
             rect |-> SpanRect(l, first, WordEnd(page[l], first))]
               : first \in WordStarts(page[l])} : l \in 1..Len(page)}

\* a regular expression is a sequence of characters, "." standing for any character
\* but a line break; one with an unbalanced "(" does not compile (re.error)
RegexCompiles(regex) == "(" \notin Range(regex)

RegexMatchAt(text, regex, i) ==
    \A k \in 1..Len(regex) :
        IF regex[k] = "." THEN text[i + k - 1] # "\n"
        ELSE lower(<<text[i + k - 1]>>) = lower(<<regex[k]>>)

\* re.finditer(regex, text, re.IGNORECASE): the matched texts, found from the left
RECURSIVE finditer(_, _, _)
finditer(regex, text, i) ==
    IF i + Len(regex) - 1 > Len(text) THEN {}
    ELSE IF RegexMatchAt(text, regex, i)
         THEN {SubSeq(text, i, i + Len(regex) - 1)}
              \cup finditer(regex, text, i + Len(regex))
         ELSE finditer(regex, text, i + 1)

(***************************************************************************)
(* apply_redactions                                                        *)
(***************************************************************************)
\* fitz.Rect(prot).intersects(area) in the place of contains
contains_any_overlap(prot, area) ==
    /\ prot[1] < area[3] /\ area[1] < prot[3]
    /\ prot[2] < area[4] /\ area[2] < prot[4]

\* fitz.Rect(prot).contains(area)
contains(prot, area) ==
    /\ prot[1] <= area[1] /\ area[1] <= area[3] /\ area[3] <= prot[3]
    /\ prot[2] <= area[2] /\ area[2] <= area[4] /\ area[4] <= prot[4]

\* is_protected with the rectangles swapped: area.contains(prot_rect)
is_protected_swapped(area, protected) ==
    \E i \in 1..Len(protected) : contains(area, protected[i])

\* the literal search: is_protected
is_protected(area, protected) ==
    \E i \in 1..Len(protected) : contains(protected[i], area)

\* the OCR and the regex search: is_protected
is_protected_xy(rect, protected) ==
    \E i \in 1..Len(protected) :
        /\ rect[1] >= protected[i][1] /\ rect[2] >= protected[i][2]
        /\ rect[3] <= protected[i][3] /\ rect[4] <= protected[i][4]

\* the self-exclusion check without lower()
pattern_excluded_case_sensitive(pattern, excl) ==
    \E i \in 1..Len(excl) : str_in(excl[i], pattern)

\* any(excl.lower() in pattern.lower() for excl in exclusions)
pattern_excluded(pattern, excl) ==
    \E i \in 1..Len(excl) : str_in(lower(excl[i]), lower(pattern))

\* the widening without expanded.x1 += 20
expanded_left_only(area) == <<area[1] - 20, area[2], area[3], area[4]>>

\* expanded = fitz.Rect(area); expanded.x0 -= 20; expanded.x1 += 20
expanded(area) == <<area[1] - 20, area[2], area[3] + 20, area[4]>>

\* should_redact with "except: should_redact = False"
should_redact_drop_on_error(d, page_num, area, excl, fail) ==
    IF <<page_num, area>> \in fail THEN FALSE
    ELSE LET context == get_textbox(PageOf(d, page_num),
                                    <<area[1] - 20, area[2], area[3] + 20, area[4]>>, 1)
         IN  ~\E i \in 1..Len(excl) : str_in(lower(excl[i]), lower(context))

\* should_redact set by the context check where the check clears it
should_redact_only_excluded(d, page_num, area, excl, fail) ==
    IF <<page_num, area>> \in fail THEN TRUE
    ELSE LET context == get_textbox(PageOf(d, page_num),
                                    <<area[1] - 20, area[2], area[3] + 20, area[4]>>, 1)
         IN  \E i \in 1..Len(excl) : str_in(lower(excl[i]), lower(context))

\* should_redact after the context check of the literal and the regex search; fail
\* holds the <<page, area>> for which page.get_textbox raises
should_redact(d, page_num, area, excl, fail) ==
    IF <<page_num, area>> \in fail THEN TRUE
    ELSE LET context == get_textbox(PageOf(d, page_num), expanded(area), 1)
         IN  ~\E i \in 1..Len(excl) : str_in(lower(excl[i]), lower(context))

Annot(page_num, rect, src, trig) ==
    [page |-> page_num, rect |-> rect, src |-> src, trig |-> trig]

\* patterns.get('keywords', []).copy() + patterns.get('passages', [])
TriggerList(pats) == pats.keywords \o pats.passages

\* region redactions
RegionAnnots(regs) ==
    UNION {{Annot(page_num, regs[page_num][i], "region", <<>>)
               : i \in 1..Len(regs[page_num])} : page_num \in DOMAIN regs}

\* regular text pattern search of one page
LiteralAnnots(d, page_num, prot, triggers, excl, fail) ==
    UNION {{Annot(page_num, area, "literal", pattern)
               : area \in {a \in search_for(PageOf(d, page_num), pattern) :
                              /\ ~is_protected(a, Get(prot, page_num))
                              /\ should_redact(d, page_num, a, excl, fail)}}
              : pattern \in {t \in Range(triggers) : ~pattern_excluded(t, excl)}}

\* OCR-based search of one page
OcrAnnots(d, page_num, prot, triggers, excl) ==
    UNION {{Annot(page_num, w.rect, "ocr", pattern)
               : w \in {v \in extract_text_with_positions(PageOf(d, page_num)) :
                           /\ str_in(lower(pattern), lower(v.text))
                           /\ ~is_protected_xy(v.rect, Get(prot, page_num))
                           /\ ~\E i \in 1..Len(excl) :
                                  str_in(lower(excl[i]), lower(v.text))}}
              : pattern \in Range(triggers)}

\* regex pattern search of one page
RegexAnnots(d, page_num, prot, regexes, excl, fail) ==
    UNION {UNION {{Annot(page_num, area, "regex", regex)
                      : area \in {a \in search_for(PageOf(d, page_num), matched_text) :
                                     /\ ~is_protected_xy(a, Get(prot, page_num))
                                     /\ should_redact(d, page_num, a, excl, fail)}}
                     : matched_text \in finditer(regex, get_text(PageOf(d, page_num)), 1)}
              : regex \in {r \in Range(regexes) : RegexCompiles(r)}}

\* apply_redactions that spares the regions lying inside a Protect region
apply_redactions_sparing_protected(d, regs, prot, pats, excl, regexes, ocr, fail) ==
    {b \in RegionAnnots(regs) : ~is_protected(b.rect, Get(prot, b.page))}
    \cup UNION {LiteralAnnots(d, n, prot, TriggerList(pats), excl, fail) : n \in PageNums(d)}
    \cup (IF ocr
          THEN UNION {OcrAnnots(d, n, prot, TriggerList(pats), excl) : n \in PageNums(d)}
          ELSE {})
    \cup UNION {RegexAnnots(d, n, prot, regexes, excl, fail) : n \in PageNums(d)}

\* the redact annotations that apply_redactions adds and burns in
apply_redactions(d, regs, prot, pats, excl, regexes, ocr, fail) ==
    RegionAnnots(regs)
    \cup UNION {LiteralAnnots(d, n, prot, TriggerList(pats), excl, fail) : n \in PageNums(d)}
    \cup (IF ocr
          THEN UNION {OcrAnnots(d, n, prot, TriggerList(pats), excl) : n \in PageNums(d)}
          ELSE {})
    \cup UNION {RegexAnnots(d, n, prot, regexes, excl, fail) : n \in PageNums(d)}

(***************************************************************************)
(* Calls on the store                                                      *)
(***************************************************************************)
Mutations == {"add", "remove", "update"}

\* the last call was no remove and no update
NoTarget == <<>>

\* the store and the disk become those of the result r of a call
Becomes(r) ==
    /\ pdf_stem' = r.s.pdf_stem
    /\ regions' = r.s.regions
    /\ protect' = r.s.protect
    /\ history' = r.s.history
    /\ future' = r.s.future
    /\ last_autosave' = r.s.last_autosave
    /\ disk' = r.disk
    /\ ret' = r.ret
    /\ now' = now
    /\ UNCHANGED <<engineVars, previewVars, cliVars, variantVars, toolVars>>

\* bookkeeping of a mutation call
NoteMutation(op) ==
    /\ lastOp' = op
    /\ ops' = ops + 1
    /\ muts' = muts + 1
    /\ phase' = "mut"
    /\ runPre' = IF phase = "mut" THEN Append(runPre, State) ELSE <<State>>
    /\ runPost' = State'
    /\ nUndo' = 0
    /\ nUndoOk' = 0
    /\ nRedo' = 0
    /\ dropped' = Len(future)

CallAdd(page, bbox, kind, fail) ==
    /\ Becomes(add(Store, disk, now, page, bbox, kind, fail))
    /\ NoteMutation("add")
    /\ target' = NoTarget
    /\ UNCHANGED persistVars

CallRemove(page, index, kind, fail) ==
    /\ Becomes(remove(Store, disk, now, page, index, kind, fail))
    /\ NoteMutation("remove")
    /\ target' = <<page, index, kind>>
    /\ UNCHANGED persistVars

CallUpdate(page, index, bbox, kind, fail) ==
    /\ Becomes(update(Store, disk, now, page, index, bbox, kind, fail))
    /\ NoteMutation("update")
    /\ target' = <<page, index, kind>>
    /\ UNCHANGED persistVars

CallUndo ==
    LET r == undo(Store)
    IN  /\ Becomes([s |-> r.s, disk |-> disk, ret |-> r.ret])
        /\ lastOp' = "undo"
        /\ ops' = ops + 1
        /\ phase' = IF phase \in {"mut", "undo"} THEN "undo" ELSE "mixed"
        /\ nUndo' = nUndo + 1
        /\ nUndoOk' = IF r.ret = "True" THEN nUndoOk + 1 ELSE nUndoOk
        /\ target' = NoTarget
        /\ UNCHANGED <<muts, runPre, runPost, nRedo, dropped, persistVars>>

CallRedo ==
    LET r == redo(Store)
    IN  /\ Becomes([s |-> r.s, disk |-> disk, ret |-> r.ret])
        /\ lastOp' = "redo"
        /\ ops' = ops + 1
        /\ phase' = IF phase \in {"undo", "redo"} THEN "redo" ELSE "mixed"
        /\ nRedo' = nRedo + 1
        /\ target' = NoTarget
        /\ UNCHANGED <<muts, runPre, runPost, nUndo, nUndoOk, dropped, persistVars>>

\* no call has been made yet
InitGhosts ==
    /\ ret = "None"
    /\ lastOp = "init"
    /\ ops = 0
    /\ muts = 0
    /\ phase = "mut"
    /\ runPre = <<>>
    /\ runPost = EmptyState
    /\ nUndo = 0
    /\ nUndoOk = 0
    /\ nRedo = 0
    /\ dropped = 0
    /\ target = NoTarget
    /\ running = TRUE
    /\ query = <<>>
    /\ found = NoPath
    /\ changedBy = "init"
    /\ changedAt = 0
    /\ writesSince = 0
    /\ savedClean = EmptyDict
    /\ saves = <<>>

\* no document text, no patterns, no pass made
InitNoPass ==
    /\ doc = <<>>
    /\ patterns = [keywords |-> <<>>, passages |-> <<>>]
    /\ exclusions = <<>>
    /\ regex_patterns = <<>>
    /\ use_ocr = FALSE
    /\ failing = {}
    /\ burn = {}
    /\ all_patterns = <<>>
    /\ pc = "edit"

\* no preview made, no region drawn
NoShow == <<>>

InitNoPreview ==
    /\ shown = NoShow
    /\ drawn = <<>>

\* main() is not running
NoArgs == <<>>

InitNoCli ==
    /\ args = NoArgs
    /\ cli_pc = "idle"
    /\ exit_status = -1
    /\ stderr = ""
    /\ reads = {}
    /\ written = FALSE

\* edit_region = None: no Region object is being edited. A Region object that is an
\* element of the list regions is named by its index idx there; idx = 0 is an object
\* that is in the list no longer, and obj holds its fields
NoRegion == [page |-> -1, bbox |-> <<0, 0, 0, 0>>, kind |-> "none"]

NoEdit == [set |-> FALSE, idx |-> 0, obj |-> NoRegion]

\* drag_info = {}: keys are the keys of the dict, the other fields their values
NoDrag == [keys |-> {}, type |-> "None", handle |-> <<>>, start_x |-> 0, start_y |-> 0]

\* the mouse button is up and has not been down yet
NoPress == [down |-> FALSE, state |-> <<>>]

\* REDACTION_PRESETS: the built-in presets, each with its name and its patterns
BuiltIn(name, keywords) == [name |-> name, patterns |-> [keywords |-> keywords, passages |-> <<>>]]

REDACTION_PRESETS ==
    [k \in {"Personal Information", "Financial Data", "Medical Records", "Legal Documents"} |->
        CASE k = "Personal Information" -> BuiltIn(k, <<>>)
          [] k = "Financial Data"  -> BuiltIn(k, <<"account", "balance", "credit card", "bank">>)
          [] k = "Medical Records" -> BuiltIn(k, <<"patient", "diagnosis", "treatment",
                                                   "medication">>)
          [] OTHER -> BuiltIn(k, <<"confidential", "attorney-client", "privileged">>)]

\* none of the programs with a dirty flag is running; the window of redact_unified.py
\* starts with the Pan tool, the drawing mode 'redact' and, no presets file being
\* there, the built-in presets
InitNoVariant ==
    /\ variant = "unified"
    /\ presets = REDACTION_PRESETS
    /\ drawing_mode = "redact"
    /\ tool_var = "PAN"
    /\ mode_var = "redact"
    /\ stack = <<>>
    /\ redo_stack = <<>>
    /\ dirty = FALSE
    /\ timers = 0
    /\ current_tool = "PAN"
    /\ edit_region = NoEdit
    /\ drag_info = NoDrag
    /\ beforeDrag = NoPress
    /\ gui_regions = <<>>

\* RegionStore(pdf_stem) of a document opened first, at time 10
InitStore ==
    /\ pdf_stem = Report
    /\ regions = EmptyDict
    /\ protect = EmptyDict
    /\ history = <<>>
    /\ future = <<>>
    /\ last_autosave = 0
    /\ now = 10

Init ==
    /\ InitStore
    /\ disk = EmptyDict
    /\ InitGhosts
    /\ InitNoPass
    /\ InitNoPreview
    /\ InitNoCli
    /\ InitNoVariant

(***************************************************************************)
(* Spec: any MaxOps calls on one store                                     *)
(***************************************************************************)
Add ==
    /\ ops < MaxOps
    /\ muts < MaxMut
    /\ \E page \in Pages, bbox \in Boxes, kind \in Kinds, fail \in WriteOutcomes :
          CallAdd(page, bbox, kind, fail)

Remove ==
    /\ ops < MaxOps
    /\ muts < MaxMut
    /\ \E page \in Pages, index \in Indexes, kind \in Kinds, fail \in WriteOutcomes :
          CallRemove(page, index, kind, fail)

Update ==
    /\ ops < MaxOps
    /\ muts < MaxMut
    /\ \E page \in Pages, index \in Indexes, bbox \in EntryBoxes, kind \in Kinds,
          fail \in WriteOutcomes :
          CallUpdate(page, index, bbox, kind, fail)

Undo == ops < MaxOps /\ CallUndo

Redo == ops < MaxOps /\ CallRedo

Next == Add \/ Remove \/ Update \/ Undo \/ Redo

Spec == Init /\ [][Next]_vars

(***************************************************************************)
(* SpecEvict: a script of add calls, with remove and update calls among    *)
(* them once the history is one short of full, then undo calls, then redo  *)
(* calls                                                                   *)
(***************************************************************************)
EvictAdd ==
    /\ phase = "mut"
    /\ Len(runPre) < MaxAdds
    /\ CallAdd(0, <<10, 10, 60, 30>>, "redact", "none")

EvictRemove ==
    /\ phase = "mut"
    /\ Len(runPre) < MaxAdds
    /\ Len(history) >= MAX_HISTORY - 1
    /\ CallRemove(0, 0, "redact", "none")

EvictUpdate ==
    /\ phase = "mut"
    /\ Len(runPre) < MaxAdds
    /\ Len(history) >= MAX_HISTORY - 1
    /\ CallUpdate(0, 0, <<0, 0, 200, 40>>, "redact", "none")

EvictUndo ==
    /\ phase \in {"mut", "undo"}
    /\ nUndo < Len(runPre)
    /\ CallUndo

EvictRedo ==
    /\ phase \in {"undo", "redo"}
    /\ nRedo < nUndo
    /\ CallRedo

NextEvict == EvictAdd \/ EvictRemove \/ EvictUpdate \/ EvictUndo \/ EvictRedo

SpecEvict == Init /\ [][NextEvict]_vars

(***************************************************************************)
(* Properties of the RegionStore                                           *)
(***************************************************************************)
\* C7: a run of n mutations (n within the run, n <= MAX_HISTORY) followed by n
\* undo() calls leaves {regions, protect} as they were before the first of the n
\* mutations; n redo() calls after that restore the state after the last one.
UndoRedoRoundTrip ==
    /\ (phase = "undo" /\ nUndo <= Len(runPre) /\ nUndo <= MAX_HISTORY)
          => State = runPre[Len(runPre) - nUndo + 1]
    /\ (phase = "redo" /\ nRedo = nUndo /\ nUndo <= Len(runPre) /\ nUndo <= MAX_HISTORY)
          => State = runPost

\* two mutations, undone twice and redone twice, each having changed the state
UndoRedoRoundTripWitness ==
    /\ phase = "redo"
    /\ nUndo = 2
    /\ nRedo = 2
    /\ Len(runPre) = 2
    /\ runPre[1] # runPre[2]
    /\ runPost # runPre[2]
    /\ State = runPost
    /\ lastOp = "redo"

\* C8: right after a mutation call future is empty, a redo() that directly follows a
\* mutation returns False and changes nothing, and future never holds more states than
\* were undone and not redone since the last mutation.
LinearHistory ==
    [][ /\ lastOp' \in Mutations => future' = <<>>
        /\ (lastOp \in Mutations /\ lastOp' = "redo")
              => (ret' = "False" /\ UNCHANGED storeVars)
        /\ (lastOp' = "redo" /\ ret' = "True") => Len(future) > 0 ]_vars

\* a redo() after an undo-then-edit: the edit dropped an undone state, the redo fails
LinearHistoryWitness ==
    /\ lastOp = "redo"
    /\ ret = "False"
    /\ phase = "mixed"
    /\ dropped > 0
    /\ nRedo = 1

\* C9: history never holds more than MAX_HISTORY snapshots; after MAX_HISTORY + 1
\* consecutive add calls on an empty store and as many undo() calls, the state is the
\* one after the first add and only MAX_HISTORY of the undo() calls returned True.
BoundedHistoryEviction ==
    /\ Len(history) <= MAX_HISTORY
    /\ (/\ phase = "undo"
        /\ Len(runPre) = MAX_HISTORY + 1
        /\ runPre[1] = EmptyState
        /\ nUndo = MAX_HISTORY + 1)
          => (State = runPre[2] /\ State # EmptyState /\ nUndoOk = MAX_HISTORY)

\* 51 add calls then 51 undo() calls have been made
BoundedHistoryEvictionWitness ==
    /\ phase = "undo"
    /\ Len(runPre) = MAX_HISTORY + 1
    /\ runPre[1] = EmptyState
    /\ nUndo = MAX_HISTORY + 1
    /\ ret = "False"

\* C10: undo() on an empty history and redo() on an empty future return False
\* (they do not raise) and leave regions, protect, history and future unchanged.
EmptyUndoRedoIsNoOp ==
    [][ /\ (lastOp' = "undo" /\ history = <<>>)
              => (ret' = "False" /\ UNCHANGED <<regions, protect, history, future>>)
        /\ (lastOp' = "redo" /\ future = <<>>)
              => (ret' = "False" /\ UNCHANGED <<regions, protect, history, future>>) ]_vars

\* undo() was called on a store with regions but an empty history
EmptyUndoRedoIsNoOpWitness ==
    /\ lastOp = "undo"
    /\ ret = "False"
    /\ history = <<>>
    /\ future # <<>>
    /\ nUndo = 2

\* the index t[2] is out of range for the page t[1] and the kind t[3] of the store
OutOfRange(t) ==
    ~(0 <= t[2] /\ t[2] < Len(Get(IF t[3] = "protect" THEN protect ELSE regions, t[1])))

\* C11: remove and update with an index out of range for the page and kind (a page
\* that has no regions included) return False, do not raise, and leave regions and
\* protect exactly as they were.
MissingIndexReturnsFalse ==
    [][ (lastOp' \in {"remove", "update"} /\ OutOfRange(target'))
           => (ret' = "False" /\ UNCHANGED <<regions, protect>>) ]_vars

\* update was called with index 1 on a page that holds one redact region
MissingIndexReturnsFalseWitness ==
    /\ lastOp = "update"
    /\ ret = "False"
    /\ target # NoTarget
    /\ target[2] = 1
    /\ target[3] = "redact"
    /\ Len(Get(regions, target[1])) = 1

Normalized(bbox) == bbox[1] < bbox[3] /\ bbox[2] < bbox[4]

\* C28: every accepted mutation (an add, or a remove or update that returns True)
\* pushes exactly one snapshot: the history grows by one until it holds MAX_HISTORY
\* snapshots and keeps that length from then on.
OneSnapshotPerMutation ==
    [][ (lastOp' \in Mutations /\ ret' \in {"None", "True"})
           => Len(history') = Min({Len(history) + 1, MAX_HISTORY}) ]_vars

\* an update returned True on a history that was full before it and is full after it
OneSnapshotPerMutationWitness ==
    /\ lastOp = "update"
    /\ ret = "True"
    /\ phase = "mut"
    /\ Len(runPre) = MAX_HISTORY + 1
    /\ Len(history) = MAX_HISTORY
    /\ runPost # runPre[Len(runPre)]

\* C12: every rectangle held by the store has x0 < x1 and y0 < y1, after any add and
\* any update, whatever the order of the coordinates that were supplied.
AllRectanglesNormalized ==
    \A d \in {regions, protect} :
        \A page \in DOMAIN d : \A i \in 1..Len(d[page]) : Normalized(d[page][i])

(***************************************************************************)
(* SpecEngine: one redaction pass over a document, the regions, patterns   *)
(* and exclusions being any of a few                                       *)
(***************************************************************************)
MaxKeywords == 1     \* keywords of the pattern set
MaxExclusions == 1   \* strings of the exclusion list

Tom == <<"T", "o", "m">>
Party == <<"p", "a", "r", "t", "y">>
WentTo == <<"w", "e", "n", "t", " ", "t", "o">>
TomsParty == <<"T", "o", "m", "'", "s", " ", "p", "a", "r", "t", "y">>
Om == <<"o", "m">>
WENT == <<"W", "E", "N", "T">>
TomThenParty == <<"T", "o", "m", "\n", "p", "a", "r", "t", "y">>

\* page 0: "Tom went to Tom's party."; page 1: "the party" / "TOM"
DocA ==
    << << <<"T", "o", "m", " ", "w", "e", "n", "t", " ", "t", "o", " ", "T", "o", "m",
            "'", "s", " ", "p", "a", "r", "t", "y", ".">> >>,
       << <<"t", "h", "e", " ", "p", "a", "r", "t", "y">>, <<"T", "O", "M">> >> >>

\* page 0: "Tom went" / "to Tom"; page 1: "party"
DocB ==
    << << <<"T", "o", "m", " ", "w", "e", "n", "t">>, <<"t", "o", " ", "T", "o", "m">> >>,
       << <<"p", "a", "r", "t", "y">> >> >>

Docs == {DocA, DocB}

SeqsUpTo(S, n) == UNION {[1..k -> S] : k \in 0..n}

KeywordChoices == SeqsUpTo({Tom, Party, WentTo}, MaxKeywords)

PassageChoices == {<<>>, <<TomThenParty>>}

ExclusionChoices == SeqsUpTo({TomsParty, Om, WENT}, MaxExclusions)

RegexChoices == {<<>>, << <<"t", ".", "m">> >>, << <<"(", "t">>, Party >>}

\* on page 0 of DocA the second "Tom" spans x 54..60 and "party" x 66..76, y 20..30
ProtectChoices ==
    {EmptyDict,
     0 :> << <<50, 15, 62, 35>> >>,
     0 :> << <<56, 15, 100, 35>> >>,
     (0 :> << <<28, 15, 40, 35>> >>) @@ (1 :> << <<20, 35, 60, 55>> >>)}

RegionChoices ==
    {EmptyDict,
     0 :> << <<52, 18, 60, 32>> >>,
     (0 :> << <<100, 100, 150, 150>> >>) @@ (1 :> << <<30, 40, 36, 50>>, <<0, 0, 10, 10>> >>)}

\* the <<page, area>> found by a search of the pass: the areas whose context is extracted
Candidates ==
    UNION {{<<n, a>> : a \in UNION ({search_for(PageOf(doc, n), t)
                                        : t \in Range(TriggerList(patterns))}
                                    \cup {search_for(PageOf(doc, n), m)
                                        : m \in UNION {finditer(r, get_text(PageOf(doc, n)), 1)
                                                          : r \in {x \in Range(regex_patterns) :
                                                                      RegexCompiles(x)}}})}
              : n \in PageNums(doc)}

\* the extraction raises for no area, for one, or for all
FailChoices == {{}} \cup {{c} : c \in Candidates} \cup {Candidates}

InitEngine ==
    /\ pdf_stem = Report
    /\ regions \in RegionChoices
    /\ protect \in ProtectChoices
    /\ history = <<>>
    /\ future = <<>>
    /\ last_autosave = 0
    /\ now = 10
    /\ disk = EmptyDict
    /\ InitGhosts
    /\ doc \in Docs
    /\ patterns \in [keywords : KeywordChoices, passages : PassageChoices]
    /\ exclusions \in ExclusionChoices
    /\ regex_patterns \in RegexChoices
    /\ use_ocr \in BOOLEAN
    /\ failing = {}
    /\ burn = {}
    /\ all_patterns = <<>>
    /\ pc = "edit"
    /\ InitNoPreview
    /\ InitNoCli
    /\ InitNoVariant

\* apply_redactions(input_pdf, output_pdf, regions, protect_regions, patterns,
\*                  exclusions, regex_patterns, use_ocr)
ApplyRedactions ==
    /\ pc = "edit"
    /\ \E fail \in FailChoices :
          /\ failing' = fail
          /\ burn' = apply_redactions(doc, regions, protect, patterns, exclusions,
                                      regex_patterns, use_ocr, fail)
    /\ all_patterns' = TriggerList(patterns)
    /\ pc' = "done"
    /\ UNCHANGED <<storeVars, ghostVars, persistVars, doc, patterns, exclusions,
                   regex_patterns, use_ocr, previewVars, cliVars, variantVars, toolVars>>

NextEngine == ApplyRedactions

SpecEngine == InitEngine /\ [][NextEngine]_vars

(***************************************************************************)
(* Properties of the redaction pass                                        *)
(***************************************************************************)
\* rectangle a lies wholly inside rectangle p
Within(a, p) == p[1] <= a[1] /\ a[3] <= p[3] /\ p[2] <= a[2] /\ a[4] <= p[4]

\* a lies wholly inside a Protect region of the page
InProtectRegion(page_num, a) ==
    \E i \in 1..Len(Get(protect, page_num)) : Within(a, Get(protect, page_num)[i])

\* some exclusion string occurs in str, case ignored
HasExclusion(str) == \E e \in Range(exclusions) : str_in(lower(e), lower(str))

\* the text of the page around a: a widened by the margin of 20 to the left and right
Context(page_num, a) ==
    get_textbox(PageOf(doc, page_num), <<a[1] - 20, a[2], a[3] + 20, a[4]>>, 1)

\* the occurrences of trigger t on a page
Occurrences(page_num, t) == search_for(PageOf(doc, page_num), t)

\* C1: no rectangle that lies wholly inside a Protect region of its page is burned in
\* as a pattern match, be it found by the literal, the OCR or the regex search.
ProtectedNeverRedacted ==
    \A b \in burn : b.src # "region" => ~InProtectRegion(b.page, b.rect)

\* an occurrence inside a Protect region that nothing else would have kept from the
\* burn-in set, the exclusion list not being empty
ProtectedNeverRedactedWitness ==
    /\ pc = "done"
    /\ exclusions # <<>>
    /\ \E n \in PageNums(doc) : \E t \in Range(all_patterns) : \E a \in Occurrences(n, t) :
          /\ InProtectRegion(n, a)
          /\ ~HasExclusion(t)
          /\ ~HasExclusion(Context(n, a))
          /\ Annot(n, a, "literal", t) \notin burn

\* C2: a trigger that contains an exclusion string, case ignored, contributes no
\* rectangle on any page, neither by the literal nor by the OCR search.
SelfExcludedNeverRedacted ==
    \A b \in burn : b.src \in {"literal", "ocr"} => ~HasExclusion(b.trig)

\* a trigger containing an exclusion occurs on a page, the extraction of its context
\* raises and the OCR search runs
SelfExcludedNeverRedactedWitness ==
    /\ pc = "done"
    /\ use_ocr
    /\ \E n \in PageNums(doc) : \E t \in Range(all_patterns) : \E a \in Occurrences(n, t) :
          /\ HasExclusion(t)
          /\ <<n, a>> \in failing
          /\ ~InProtectRegion(n, a)

\* C3: every rectangle of the regions of a page is burned in, whatever the Protect
\* regions, patterns and exclusions are.
RedactRegionsAlwaysBurned ==
    pc = "done" =>
        \A n \in DOMAIN regions : \A i \in 1..Len(regions[n]) :
            Annot(n, regions[n][i], "region", <<>>) \in burn

\* a Redact box inside a Protect region, over text that matches an exclusion, burned in
RedactRegionsAlwaysBurnedWitness ==
    /\ pc = "done"
    /\ \E n \in DOMAIN regions : \E i \in 1..Len(regions[n]) :
          /\ InProtectRegion(n, regions[n][i])
          /\ HasExclusion(Context(n, regions[n][i]))
          /\ Annot(n, regions[n][i], "region", <<>>) \in burn

\* C4: an occurrence of a trigger that is not self-excluded, outside the Protect
\* regions and with an extractable context, is burned in exactly when no exclusion
\* string occurs, case ignored, in the text of its rectangle widened by the margin.
OccurrenceDecidedByContext ==
    pc = "done" =>
        \A n \in PageNums(doc) : \A t \in Range(all_patterns) : \A a \in Occurrences(n, t) :
            (~HasExclusion(t) /\ ~InProtectRegion(n, a) /\ <<n, a>> \notin failing)
                => (Annot(n, a, "literal", t) \in burn <=> ~HasExclusion(Context(n, a)))

\* keyword "Tom", exclusion "Tom's party", page "Tom went to Tom's party.": the first
\* "Tom" is burned in, the second is not
OccurrenceDecidedByContextWitness ==
    /\ pc = "done"
    /\ doc = DocA
    /\ Tom \in Range(all_patterns)
    /\ exclusions = <<TomsParty>>
    /\ failing = {}
    /\ ~InProtectRegion(0, <<30, 20, 36, 30>>)
    /\ ~InProtectRegion(0, <<54, 20, 60, 30>>)
    /\ Occurrences(0, Tom) = {<<30, 20, 36, 30>>, <<54, 20, 60, 30>>}
    /\ Annot(0, <<30, 20, 36, 30>>, "literal", Tom) \in burn
    /\ Annot(0, <<54, 20, 60, 30>>, "literal", Tom) \notin burn

RECURSIVE splitlines(_)
splitlines(str) ==
    IF str = <<>> THEN <<>>
    ELSE IF "\n" \notin Range(str) THEN <<str>>
    ELSE LET k == Min({i \in 1..Len(str) : str[i] = "\n"})
         IN  <<SubSeq(str, 1, k - 1)>> \o splitlines(SubSeq(str, k + 1, Len(str)))

\* the lines of a passage that hold more than white space
NonBlankLines(passage) ==
    SelectSeq(splitlines(passage), LAMBDA line : \E c \in Range(line) : ~IsSpace(c))

RECURSIVE FlattenPassages(_)
FlattenPassages(passages) ==
    IF passages = <<>> THEN <<>>
    ELSE NonBlankLines(Head(passages)) \o FlattenPassages(Tail(passages))

\* C6: the pass searches for the keywords in their order, then for every non-blank
\* line of every passage in the original order, each line a trigger of its own.
TriggersAreFlattened ==
    pc = "done" => all_patterns = patterns.keywords \o FlattenPassages(patterns.passages)

(***************************************************************************)
(* SpecFind: one find_latest_file call over any few files of DATA_DIR      *)
(***************************************************************************)
\* the stem of a document report_regions.pdf
ReportRegions == <<"report", "_", "regions">>

\* the files DATA_DIR can hold after autosave() and save() calls on the stores of
\* report.pdf and report_regions.pdf, each with the time it was written at
FindFiles ==
    [p \in {AutosavePath(Report, "regions"),
            Tmp(AutosavePath(Report, "regions")),
            get_timestamped_filename(Report, "regions", 10),
            get_timestamped_filename(Report, "regions", 70),
            get_timestamped_filename(Report, "regions", 130),
            AutosavePath(ReportRegions, "regions"),
            get_timestamped_filename(ReportRegions, "regions", 130)}
        |-> IF p = AutosavePath(Report, "regions") THEN 5
            ELSE IF p = AutosavePath(ReportRegions, "regions") THEN 200
            ELSE IF p = Tmp(AutosavePath(Report, "regions")) THEN 220
            ELSE strptime(p[Len(p) - 1]) + 10]

FindDisks ==
    {[p \in S |-> Whole(EmptyState, FindFiles[p])] : S \in SUBSET (DOMAIN FindFiles)}

InitFind ==
    /\ InitStore
    /\ disk \in FindDisks
    /\ InitGhosts
    /\ InitNoPass
    /\ InitNoPreview
    /\ InitNoCli
    /\ InitNoVariant

\* JSONStore.find_latest_file(stem, 'regions')
FindLatest ==
    /\ lastOp = "init"
    /\ \E stem \in {Report, ReportRegions} :
          /\ query' = <<stem, "regions">>
          /\ found' \in find_latest_file(disk, stem, "regions")
    /\ lastOp' = "find_latest_file"
    /\ ops' = ops + 1
    /\ UNCHANGED <<storeVars, ret, muts, runVars, target, running, changedBy, changedAt,
                   writesSince, savedClean, saves, engineVars, previewVars, cliVars, variantVars, toolVars>>

NextFind == FindLatest

SpecFind == InitFind /\ [][NextFind]_vars

\* the timestamped files of DATA_DIR written for stem and purpose
TimestampedFiles(d, stem, purpose) ==
    {p \in DOMAIN d : \E i \in 1..Len(Stamps) :
                          p = stem \o <<"_", purpose, "_", Stamps[i], ".json">>}

\* the time the name of a timestamped file gives
StampOf(p) == strptime(p[Len(p) - 1])

\* C17: find_latest(stem, purpose) returns the autosave file whenever one exists for
\* that stem and purpose, even if a timestamped file is newer; otherwise it returns
\* the timestamped file with the latest timestamp; it returns none when no file exists.
FindLatestPrefersAutosave ==
    lastOp = "find_latest_file" =>
        LET auto == AutosavePath(query[1], query[2])
            own  == TimestampedFiles(disk, query[1], query[2])
        IN  IF auto \in DOMAIN disk THEN found = auto
            ELSE IF own # {}
                 THEN found \in own /\ \A q \in own : StampOf(q) <= StampOf(found)
                 ELSE found = NoPath

(***************************************************************************)
(* SpecPersist: a session on the window: edits, undo and redo, explicit    *)
(* saves, opening documents, closing and starting the program, time        *)
(* passing, and a file of DATA_DIR damaged from outside                    *)
(***************************************************************************)
MaxSteps == 5        \* handler runs and clock steps per behaviour of SpecPersist

\* the autosave interval of RegionStore.autosave, in seconds
Cadence == 5

\* the stem of a document memo.pdf
Memo == <<"memo">>

Stems == {Report, Memo}

\* the clock moves on by less or by more than a minute
TickSteps == {6, 60}

\* the stem of the pattern and exclusion files
AppWide == <<"app_wide">>

\* JSONStore.PREFS_FILE
PREFS_FILE == <<"redact_unified", "_", "prefs", ".json">>

\* the files json.loads cannot read
Corrupted(d) == {p \in DOMAIN d : Last(p) = ".json" /\ ~d[p].whole}

\* bookkeeping of a handler run: it wrote the autosave file or not
NoteCall(op, wrote) ==
    LET changed == State' # State
    IN  /\ lastOp' = op
        /\ ops' = ops + 1
        /\ changedBy' = IF changed THEN op ELSE changedBy
        /\ changedAt' = IF changed THEN now ELSE changedAt
        /\ writesSince' = (IF changed THEN 0 ELSE writesSince) + (IF wrote THEN 1 ELSE 0)
        /\ savedClean' = IF changed THEN Without(savedClean, pdf_stem) ELSE savedClean
        /\ UNCHANGED <<muts, runVars, target, running, query, found, saves>>

\* end_draw: a rectangle drawn on the page is added
PersistAdd ==
    /\ running
    /\ ops < MaxSteps
    /\ \E kind \in {"redact", "protect"}, fail \in WriteOutcomes :
          /\ Becomes(add(Store, disk, now, 0, <<10, 10, 60, 30>>, kind, fail))
          /\ NoteCall("add", now - last_autosave > 5)

\* delete_selected_region: the first region of a kind is removed
PersistRemove ==
    /\ running
    /\ ops < MaxSteps
    /\ \E kind \in {"redact", "protect"}, fail \in WriteOutcomes :
          /\ Becomes(remove(Store, disk, now, 0, 0, kind, fail))
          /\ NoteCall("remove", ret' # "False")

\* toggle_region_kind from the menu of a region of page 0: find_region_at gave its
\* kind and index; runPre keeps the state from before the handler
PersistToggle ==
    /\ running
    /\ ops < MaxSteps
    /\ \E kind \in {"redact", "protect"}, fail \in WriteOutcomes :
          \E index \in 0..(Len(Get(IF kind = "redact" THEN regions ELSE protect, 0)) - 1) :
              /\ Becomes(toggle_region_kind(Store, disk, now, 0, index, kind, fail))
              /\ target' = <<0, index, kind>>
    /\ runPre' = <<State>>
    /\ lastOp' = "toggle"
    /\ ops' = ops + 1
    /\ changedBy' = IF State' # State THEN "toggle" ELSE changedBy
    /\ changedAt' = IF State' # State THEN now ELSE changedAt
    /\ writesSince' = (IF State' # State THEN 0 ELSE writesSince) + 1
    /\ savedClean' = IF State' # State THEN Without(savedClean, pdf_stem) ELSE savedClean
    /\ UNCHANGED <<muts, phase, runPost, nUndo, nUndoOk, nRedo, dropped, running, query,
                   found, saves>>

\* PDFRedactorGUI.undo
PersistUndo ==
    /\ running
    /\ ops < MaxSteps
    /\ Becomes([s |-> undo(Store).s, disk |-> disk, ret |-> undo(Store).ret])
    /\ NoteCall("undo", FALSE)

\* PDFRedactorGUI.redo
PersistRedo ==
    /\ running
    /\ ops < MaxSteps
    /\ Becomes([s |-> redo(Store).s, disk |-> disk, ret |-> redo(Store).ret])
    /\ NoteCall("redo", FALSE)

\* time passes
Tick ==
    /\ ops < MaxSteps
    /\ \E d \in TickSteps :
          /\ now + d < 60 * Len(Stamps)
          /\ now' = now + d
    /\ lastOp' = "tick"
    /\ ops' = ops + 1
    /\ UNCHANGED <<pdf_stem, regions, protect, history, future, last_autosave, disk, ret,
                   muts, runVars, target, persistVars, engineVars, previewVars, cliVars, variantVars, toolVars>>

\* save_regions: RegionStore.save()
PersistSave ==
    /\ running
    /\ ops < MaxSteps
    /\ \E fail \in WriteOutcomes :
          LET r == save(Store, disk, now, fail)
          IN  /\ Becomes(r)
              /\ saves' = IF r.ret = "None"
                          THEN Append(saves,
                                      [path |-> get_timestamped_filename(pdf_stem, "regions", now),
                                       state |-> State])
                          ELSE saves
              /\ savedClean' = IF r.ret = "None" THEN Put(savedClean, pdf_stem, State)
                               ELSE savedClean
    /\ lastOp' = "save"
    /\ ops' = ops + 1
    /\ UNCHANGED <<muts, runVars, target, running, query, found, changedBy, changedAt,
                   writesSince>>

\* save_app_configs: the patterns and the exclusions go to timestamped files
SaveConfigs ==
    /\ running
    /\ ops < MaxSteps
    /\ disk' = write_atomic(
                  write_atomic(disk, get_timestamped_filename(AppWide, "patterns", now),
                               patterns, now, "none"),
                  get_timestamped_filename(AppWide, "exclusions", now),
                  [keywords |-> exclusions, passages |-> <<>>], now, "none")
    /\ ret' = "None"
    /\ lastOp' = "save_app_configs"
    /\ ops' = ops + 1
    /\ UNCHANGED <<pdf_stem, regions, protect, history, future, last_autosave, now, muts,
                   runVars, target, persistVars, engineVars, previewVars, cliVars, variantVars, toolVars>>

\* open_pdf: the store of the window becomes RegionStore.load(stem); when load raises
\* the assignment is not made
OpenPdf ==
    /\ running
    /\ ops < MaxSteps
    /\ \E stem \in Stems :
          /\ query' = <<stem, "regions">>
          /\ found' \in find_latest_file(disk, stem, "regions")
          /\ LET r == load(disk, stem, found')
             IN  /\ Becomes([s |-> IF r.ret = "raise" THEN Store ELSE r.s,
                             disk |-> disk, ret |-> r.ret])
                 /\ changedBy' = IF r.ret = "raise" THEN changedBy ELSE "open"
                 /\ changedAt' = IF r.ret = "raise" THEN changedAt ELSE now
                 /\ writesSince' = IF r.ret = "raise" THEN writesSince ELSE 0
    /\ lastOp' = "open"
    /\ ops' = ops + 1
    /\ UNCHANGED <<muts, runVars, target, running, savedClean, saves>>

\* the WM_DELETE_WINDOW handler of run_gui: save_prefs(), then the window is destroyed
Close ==
    /\ running
    /\ ops < MaxSteps
    /\ disk' = write_atomic(disk, PREFS_FILE, [last_pdf |-> pdf_stem], now, "none")
    /\ running' = FALSE
    /\ ret' = "None"
    /\ lastOp' = "close"
    /\ ops' = ops + 1
    /\ UNCHANGED <<pdf_stem, regions, protect, history, future, last_autosave, now, muts,
                   runVars, target, query, found, changedBy, changedAt, writesSince,
                   savedClean, saves, engineVars, previewVars, cliVars, variantVars, toolVars>>

\* load_app_configs: the paths it reads, None for a purpose without a file
ConfigPaths(d) ==
    {<<pat, exc>> : pat \in find_latest_file(d, AppWide, "patterns"),
                    exc \in find_latest_file(d, AppWide, "exclusions")}

\* run_gui after the window was closed: PDFRedactorGUI(root) reads the configs
\* (load_app_configs), the preferences, and opens last_pdf again; an exception ends
\* the program
Start ==
    /\ ~running
    /\ ops < MaxSteps
    /\ \E paths \in ConfigPaths(disk) :
          LET pat     == paths[1]
              exc     == paths[2]
              cfgFail == \/ (pat # NoPath /\ ~disk[pat].whole)
                         \/ (exc # NoPath /\ ~disk[exc].whole)
              stem    == disk[PREFS_FILE].data.last_pdf
          IN  /\ query' = <<stem, "regions">>
              /\ found' \in find_latest_file(disk, stem, "regions")
              /\ LET r      == load(disk, stem, found')
                     raised == cfgFail \/ r.ret = "raise"
                 IN  /\ Becomes([s |-> IF raised THEN Store ELSE r.s, disk |-> disk,
                                 ret |-> IF raised THEN "raise" ELSE "None"])
                     /\ running' = ~raised
                     /\ changedBy' = IF raised THEN changedBy ELSE "open"
                     /\ changedAt' = IF raised THEN changedAt ELSE now
                     /\ writesSince' = IF raised THEN writesSince ELSE 0
    /\ lastOp' = "start"
    /\ ops' = ops + 1
    /\ UNCHANGED <<muts, runVars, target, savedClean, saves>>

\* a region or configuration file is damaged from outside the program
Corrupt ==
    /\ ops < MaxSteps
    /\ Corrupted(disk) = {}
    /\ \E p \in DOMAIN disk :
          /\ Last(p) = ".json"
          /\ p # PREFS_FILE
          /\ disk' = [disk EXCEPT ![p].whole = FALSE]
    /\ lastOp' = "corrupt"
    /\ ops' = ops + 1
    /\ UNCHANGED <<pdf_stem, regions, protect, history, future, last_autosave, now, ret,
                   muts, runVars, target, persistVars, engineVars, previewVars, cliVars, variantVars, toolVars>>

NextPersist ==
    \/ PersistAdd \/ PersistRemove \/ PersistToggle \/ PersistUndo \/ PersistRedo \/ Tick
    \/ PersistSave \/ SaveConfigs \/ OpenPdf \/ Close \/ Start \/ Corrupt

SpecPersist == Init /\ [][NextPersist]_vars

(***************************************************************************)
(* Properties of persistence                                               *)
(***************************************************************************)
\* C13: once a mutation of the region state has been followed by no further mutation
\* for the autosave cadence, exactly one write to the autosave path has occurred since
\* that mutation, and no further write occurs however much more time passes.
AutosaveDebounce ==
    (changedBy \in Mutations /\ now - changedAt > Cadence) => writesSince = 1

\* the autosave file of the open document holds the state of its store
AutosaveHolds ==
    /\ AutosavePath(pdf_stem, "regions") \in DOMAIN disk
    /\ disk[AutosavePath(pdf_stem, "regions")].data = State

\* C14: an undo() or redo() that changed the state counts as a mutation for
\* persistence: once the cadence has passed after it with no further change, the
\* state it restored is in the autosave file.
UndoRedoReachAutosave ==
    (changedBy \in {"undo", "redo"} /\ now - changedAt > Cadence) => AutosaveHolds

\* C15: load(d) after a save() on the store of d, with no later save and no change
\* of that store in between, returns {regions, protect} equal to the saved ones; load
\* returns an empty store when no file of d exists.
SaveLoadRoundTrip ==
    [][ (lastOp' \in {"open", "start"} /\ Corrupted(disk) = {})
           => /\ query'[1] \in DOMAIN savedClean
                    => (ret' = "None" /\ State' = savedClean[query'[1]])
              /\ (/\ AutosavePath(query'[1], "regions") \notin DOMAIN disk
                  /\ TimestampedFiles(disk, query'[1], "regions") = {})
                    => (ret' = "None" /\ State' = EmptyState) ]_vars

\* C16: every save() writes a new, uniquely named timestamped file: the files of any
\* two save() calls differ, however close in time, the file of each earlier save()
\* still exists with the content that save() wrote, and save() never writes the
\* autosave file.
SavesKeepDistinctFiles ==
    [][ /\ \A i \in 1..Len(saves') :
              /\ saves'[i].path \in DOMAIN disk'
              /\ disk'[saves'[i].path].data = saves'[i].state
        /\ \A i, j \in 1..Len(saves') : i # j => saves'[i].path # saves'[j].path
        /\ lastOp' = "save"
              => \A stem \in Stems :
                    /\ AutosavePath(stem, "regions") \in DOMAIN disk'
                          <=> AutosavePath(stem, "regions") \in DOMAIN disk
                    /\ AutosavePath(stem, "regions") \in DOMAIN disk
                          => disk'[AutosavePath(stem, "regions")]
                                = disk[AutosavePath(stem, "regions")] ]_vars

\* the file the write_atomic call of the step writes: the timestamped file of a
\* save(), the autosave file of a mutation
WrittenPath ==
    IF lastOp' = "save" THEN get_timestamped_filename(pdf_stem, "regions", now)
    ELSE AutosavePath(pdf_stem, "regions")

\* C18: write_atomic is all-or-nothing: after it the destination holds its complete
\* previous content or the complete new content, and when a step of it failed the
\* destination is as it was and the sibling temp file no longer exists.
WriteAtomicAllOrNothing ==
    [][ lastOp' \in Mutations \cup {"save"}
           => /\ WrittenPath \in DOMAIN disk'
                    => \/ disk'[WrittenPath] = Whole(State', now)
                       \/ /\ WrittenPath \in DOMAIN disk
                          /\ disk'[WrittenPath] = disk[WrittenPath]
              /\ ret' = "raise"
                    => /\ Tmp(WrittenPath) \notin DOMAIN disk'
                       /\ WrittenPath \in DOMAIN disk' <=> WrittenPath \in DOMAIN disk
                       /\ WrittenPath \in DOMAIN disk
                             => disk'[WrittenPath] = disk[WrittenPath] ]_vars

\* what load(stem) can return over the files d
Reloaded(d, stem) == {load(d, stem, p) : p \in find_latest_file(d, stem, "regions")}

\* C19: when the region state of a document is released, by opening a document over
\* it or by closing the window, its regions are persisted first: reopening the
\* document shows every accepted mutation.
ReleaseForcesFinalSave ==
    [][ (/\ (lastOp' = "open" /\ ret' # "raise") \/ lastOp' = "close"
         /\ Corrupted(disk) = {})
           => \A r \in Reloaded(disk', pdf_stem) :
                 r.ret = "None" /\ r.s.regions = regions /\ r.s.protect = protect ]_vars

\* C20: loading a persisted file that holds corrupt JSON (region snapshot, pattern
\* or exclusion configuration) never raises out of the load path: the loader falls
\* back to the empty store or the default configuration.
CorruptLoadFallsBack ==
    [][ lastOp' \in {"open", "start"}
           => /\ ret' # "raise"
              /\ (found' # NoPath /\ ~disk[found'].whole)
                    => (pdf_stem' = query'[1] /\ State' = EmptyState) ]_vars

(***************************************************************************)
(* PDFCanvas.display in preview mode                                       *)
(***************************************************************************)
\* PDFCanvas._should_redact_area(area, protect, exclusions, page); fail holds the
\* <<page, area>> for which page.get_textbox raises
_should_redact_area(d, page_num, area, protected, excl, fail) ==
    IF is_protected_xy(area, protected) THEN FALSE
    ELSE IF <<page_num, area>> \in fail THEN TRUE
    ELSE LET context == get_textbox(PageOf(d, page_num), expanded(area), 1)
         IN  ~\E i \in 1..Len(excl) : str_in(lower(excl[i]), lower(context))

\* the preview of the search in regular text
PreviewLiteral(d, page_num, prot, patt_list, excl, fail) ==
    UNION {{area \in search_for(PageOf(d, page_num), pat) :
               _should_redact_area(d, page_num, area, prot, excl, fail)}
              : pat \in {t \in Range(patt_list) : ~pattern_excluded(t, excl)}}

\* the preview of the search in OCR text
PreviewOcr(d, page_num, prot, patt_list, excl, fail) ==
    {w.rect : w \in {v \in extract_text_with_positions(PageOf(d, page_num)) :
                        /\ \E pat \in Range(patt_list) : str_in(lower(pat), lower(v.text))
                        /\ _should_redact_area(d, page_num, v.rect, prot, excl, fail)}}

\* the preview of the regex pattern search
PreviewRegex(d, page_num, prot, regexes, excl, fail) ==
    UNION {UNION {{area \in search_for(PageOf(d, page_num), matched_text) :
                      _should_redact_area(d, page_num, area, prot, excl, fail)}
                     : matched_text \in finditer(regex, get_text(PageOf(d, page_num)), 1)}
              : regex \in {r \in Range(regexes) : RegexCompiles(r)}}

\* PDFCanvas.display(page, regions, protect, patterns=..., preview=True, ...): the
\* rectangles filled black; regs and prot are the lists of the page, excl is
\* exclusions + excluded_passages
display(d, page_num, regs, prot, pats, excl, regexes, ocr, fail) ==
    Range(regs)
    \cup PreviewLiteral(d, page_num, prot, pats.keywords \o pats.passages, excl, fail)
    \cup (IF ocr
          THEN PreviewOcr(d, page_num, prot, pats.keywords \o pats.passages, excl, fail)
          ELSE {})
    \cup PreviewRegex(d, page_num, prot, regexes, excl, fail)

\* the patterns dict after apply_redactions, which extends all_patterns in place
\* without patterns.get('keywords', []).copy()
patterns_after_pass_nocopy(pats) ==
    [pats EXCEPT !.keywords = pats.keywords \o pats.passages]

\* the patterns dict after apply_redactions: all_patterns is a copy of the keywords
patterns_after_pass(pats) == pats

(***************************************************************************)
(* SpecPreview: regions are added to the store of an open document, pages  *)
(* are previewed and the redacted copy is saved                            *)
(***************************************************************************)
MaxDraws == 1        \* add calls per behaviour of SpecPreview
MaxTriggers == 1     \* keywords of the pattern set of SpecPreview

Empty == <<>>

PreviewKeywordChoices == SeqsUpTo({Tom, Empty}, MaxTriggers)

PreviewPassageChoices == {<<>>, <<Party>>}

PreviewExclusionChoices == {<<>>, <<TomsParty>>, <<Om>>}

PreviewRegexChoices == {<<>>, << <<"t", ".", "m">> >>}

\* the rectangle drawn, on page 0: it covers the second "Tom" of DocA
DrawnBox == <<52, 18, 60, 32>>

DrawnPages == {0}

\* the <<page, area>> whose context a preview or a pass extracts
PreviewCandidates ==
    Candidates
    \cup UNION {{<<n, w.rect>> : w \in extract_text_with_positions(PageOf(doc, n))}
                   : n \in PageNums(doc)}

\* the store of a document opened again: its file holds no Protect region, or one that
\* covers the end of the second "Tom" and the "party" of page 0 of DocA
PreviewProtectChoices == {EmptyDict, 0 :> << <<56, 15, 100, 35>> >>}

InitPreview ==
    /\ pdf_stem = Report
    /\ regions = EmptyDict
    /\ protect \in PreviewProtectChoices
    /\ history = <<>>
    /\ future = <<>>
    /\ last_autosave = 0
    /\ now = 10
    /\ disk = EmptyDict
    /\ InitGhosts
    /\ doc = DocA
    /\ patterns \in [keywords : PreviewKeywordChoices, passages : PreviewPassageChoices]
    /\ exclusions \in PreviewExclusionChoices
    /\ regex_patterns \in PreviewRegexChoices
    /\ use_ocr \in BOOLEAN
    /\ failing \in {{}, PreviewCandidates}
    /\ burn = {}
    /\ all_patterns = <<>>
    /\ pc = "edit"
    /\ InitNoPreview
    /\ InitNoCli
    /\ InitNoVariant

\* RegionStore.add(page, bbox, kind)
StoreAdd ==
    /\ Len(drawn) < MaxDraws
    /\ \E page \in DrawnPages, kind \in Kinds :
          LET r == add(Store, disk, now, page, DrawnBox, kind, "none")
          IN  /\ regions' = r.s.regions
              /\ protect' = r.s.protect
              /\ history' = r.s.history
              /\ future' = r.s.future
              /\ last_autosave' = r.s.last_autosave
              /\ disk' = r.disk
              /\ ret' = r.ret
              /\ drawn' = Append(drawn, <<page, DrawnBox, kind>>)
    /\ lastOp' = "add"
    /\ shown' = NoShow
    /\ burn' = {}
    /\ all_patterns' = <<>>
    /\ pc' = "edit"
    /\ UNCHANGED <<pdf_stem, now, ops, muts, runVars, target, persistVars, doc, patterns,
                   exclusions, regex_patterns, use_ocr, failing, cliVars, variantVars, toolVars>>

\* display_page() with the preview switched on, after prev_page or next_page
DisplayPage ==
    /\ \E page_num \in PageNums(doc) :
          shown' = [page |-> page_num,
                    rects |-> display(doc, page_num, Get(regions, page_num),
                                      Get(protect, page_num), patterns, exclusions,
                                      regex_patterns, use_ocr, failing)]
    /\ lastOp' = "display_page"
    /\ UNCHANGED <<storeVars, ret, ops, muts, runVars, target, persistVars, engineVars,
                   drawn, cliVars, variantVars, toolVars>>

\* save_redacted(): the store is saved, an output file is chosen, the pass made
SaveRedacted ==
    /\ LET r == save(Store, disk, now, "none")
       IN  /\ disk' = r.disk
           /\ ret' = r.ret
    /\ burn' = apply_redactions(doc, regions, protect, patterns, exclusions,
                                regex_patterns, use_ocr, failing)
    /\ all_patterns' = TriggerList(patterns)
    /\ patterns' = patterns_after_pass(patterns)
    /\ pc' = "done"
    /\ lastOp' = "save_redacted"
    /\ UNCHANGED <<pdf_stem, regions, protect, history, future, last_autosave, now, ops,
                   muts, runVars, target, persistVars, doc, exclusions, regex_patterns,
                   use_ocr, failing, previewVars, cliVars, variantVars, toolVars>>

NextPreview == StoreAdd \/ DisplayPage \/ SaveRedacted

SpecPreview == InitPreview /\ [][NextPreview]_vars

(***************************************************************************)
(* Properties of the preview and of the pass                               *)
(***************************************************************************)
\* the rectangles of page page_num among the annotations
RectsOn(annots, page_num) == {b.rect : b \in {a \in annots : a.page = page_num}}

\* C21: the rectangles blacked out by the preview of a page are the rectangles the
\* save-redacted pass burns in on that page, for the same patterns, exclusions,
\* Redact and Protect regions.
PreviewEqualsBurnIn ==
    (shown # NoShow /\ pc = "done") => shown.rects = RectsOn(burn, shown.page)

Rects(annots) == {<<b.page, b.rect>> : b \in annots}

\* the strings an exclusion list may be extended by
MoreExclusions == {TomsParty, Om, WENT}

\* C23: the rectangles burned in with the exclusion list E are among those burned in
\* with the empty list, and E extended by one more string burns in none that E did not.
ExclusionsOnlySuppress ==
    pc = "done" =>
        /\ Rects(burn) \subseteq Rects(apply_redactions(doc, regions, protect, patterns, <<>>,
                                                         regex_patterns, use_ocr, failing))
        /\ \A e \in MoreExclusions :
              Rects(apply_redactions(doc, regions, protect, patterns,
                                     Append(exclusions, e), regex_patterns, use_ocr,
                                     failing)) \subseteq Rects(burn)

\* a pass whose exclusion list kept a rectangle from the burn-in set and left another
ExclusionsOnlySuppressWitness ==
    /\ pc = "done"
    /\ exclusions # <<>>
    /\ \E b \in burn : b.src = "literal"
    /\ Rects(burn) # Rects(apply_redactions(doc, regions, protect, patterns, <<>>,
                                            regex_patterns, use_ocr, failing))

\* the regions added with kind, none with the same page and rectangle being of kind
\* 'redact'
DrawnOnlyAs(kind) ==
    {i \in 1..Len(drawn) :
        /\ drawn[i][3] = kind
        /\ ~\E j \in 1..Len(drawn) : drawn[j] = <<drawn[i][1], drawn[i][2], "redact">>}

\* C25: a region added with kind 'exclude' or 'protect' is not burned in as a manual
\* region, and the pattern occurrences burned in are those burned in without the
\* Exclude regions.
OnlyRedactKindBurned ==
    pc = "done" =>
        /\ \A kind \in {"exclude", "protect"} : \A i \in DrawnOnlyAs(kind) :
              Annot(drawn[i][1], drawn[i][2], "region", <<>>) \notin burn
        /\ {b \in burn : b.src # "region"}
              = {b \in apply_redactions(doc, EmptyDict, protect, patterns, exclusions,
                                        regex_patterns, use_ocr, failing) : b.src # "region"}

\* rectangles a and p share an area
Intersects(a, p) == a[1] < p[3] /\ p[1] < a[3] /\ a[2] < p[4] /\ p[2] < a[4]

\* a shares an area with a Protect region of the page and lies wholly inside none
PartlyInProtectRegion(page_num, a) ==
    /\ \E i \in 1..Len(Get(protect, page_num)) : Intersects(a, Get(protect, page_num)[i])
    /\ ~InProtectRegion(page_num, a)

EmptyTriggerSkipped ==
    \A b \in burn : b.src \in {"literal", "ocr"} => b.trig # Empty

(***************************************************************************)
(* SpecCli: main() of redact_unified.py on any command line                *)
(***************************************************************************)
\* an option or a positional argument that was not given
None == "None"

\* parser.parse_args(): output is the second positional argument, so there is no
\* output without an input
CommandLines ==
    {a \in [gui : BOOLEAN, input : {None, "in.pdf"}, output : {None, "out.pdf"},
            patterns : {None, "p.json"}, exclusions : {None, "e.json"},
            regions : {None, "r.json"}, preset : {None, "emails"}, ocr : BOOLEAN,
            apply : BOOLEAN] :
        a.input = None => a.output = None}

\* parser.error(message) exits with status 2 after writing the message to stderr
OutputRequired == "output PDF required in CLI mode"

\* main() that tests --apply before it looks for the output
main_mode_apply_first(a) ==
    IF a.gui \/ (a.input = None /\ ~a.apply) THEN "gui"
    ELSE IF a.apply \/ (a.input # None /\ a.output # None) THEN "patterns"
    ELSE IF a.input # None /\ a.output = None THEN "error"
    ELSE "return"

\* the branch main() takes after parse_args()
main_mode(a) ==
    IF a.gui \/ (a.input = None /\ ~a.apply) THEN "gui"
    ELSE IF a.input # None /\ a.output = None THEN "error"
    ELSE IF a.apply \/ (a.input # None /\ a.output # None) THEN "patterns"
    ELSE "return"

InitCli ==
    /\ InitStore
    /\ disk = EmptyDict
    /\ InitGhosts
    /\ InitNoPass
    /\ InitNoPreview
    /\ args \in CommandLines
    /\ cli_pc = "start"
    /\ exit_status = -1
    /\ stderr = ""
    /\ reads = {}
    /\ written = FALSE
    /\ InitNoVariant

\* the process ends on an exception that nothing catches
Traceback ==
    /\ cli_pc' = "exit"
    /\ exit_status' = 1
    /\ stderr' = "Traceback"

\* everything but the variables of main()
CliFrame ==
    UNCHANGED <<storeVars, ghostVars, persistVars, engineVars, previewVars, variantVars, toolVars,
                args>>

\* main() up to the choice of the mode
MainStart ==
    /\ cli_pc = "start"
    /\ CASE main_mode(args) = "gui" ->
                /\ cli_pc' = "gui"
                /\ UNCHANGED <<exit_status, stderr>>
         [] main_mode(args) = "error" ->
                /\ cli_pc' = "exit"
                /\ exit_status' = 2
                /\ stderr' = OutputRequired
         [] main_mode(args) = "patterns" ->
                /\ cli_pc' = "patterns"
                /\ UNCHANGED <<exit_status, stderr>>
         [] OTHER ->
                /\ cli_pc' = "exit"
                /\ exit_status' = 0
                /\ UNCHANGED stderr
    /\ UNCHANGED <<reads, written>>
    /\ CliFrame

\* run_gui() returns when the window is closed
MainGui ==
    /\ cli_pc = "gui"
    /\ cli_pc' = "exit"
    /\ exit_status' = 0
    /\ UNCHANGED <<stderr, reads, written>>
    /\ CliFrame

\* the preset or the patterns are loaded; a file named on the command line may be
\* missing, the latest app_wide patterns file may not exist
MainLoadPatterns ==
    /\ cli_pc = "patterns"
    /\ \E exists \in BOOLEAN :
          IF args.preset # None
          THEN /\ reads' = IF exists THEN reads \cup {"presets"} ELSE reads
               /\ cli_pc' = "exclusions"
               /\ UNCHANGED <<exit_status, stderr>>
          ELSE IF args.patterns # None
          THEN IF exists
               THEN /\ reads' = reads \cup {args.patterns}
                    /\ cli_pc' = "exclusions"
                    /\ UNCHANGED <<exit_status, stderr>>
               ELSE Traceback /\ UNCHANGED reads
          ELSE /\ reads' = IF exists THEN reads \cup {"app_wide_patterns"} ELSE reads
               /\ cli_pc' = "exclusions"
               /\ UNCHANGED <<exit_status, stderr>>
    /\ UNCHANGED written
    /\ CliFrame

\* the exclusions are loaded
MainLoadExclusions ==
    /\ cli_pc = "exclusions"
    /\ \E exists \in BOOLEAN :
          IF args.exclusions # None
          THEN IF exists
               THEN /\ reads' = reads \cup {args.exclusions}
                    /\ cli_pc' = "regions"
                    /\ UNCHANGED <<exit_status, stderr>>
               ELSE Traceback /\ UNCHANGED reads
          ELSE /\ reads' = IF exists THEN reads \cup {"app_wide_exclusions"} ELSE reads
               /\ cli_pc' = "regions"
               /\ UNCHANGED <<exit_status, stderr>>
    /\ UNCHANGED written
    /\ CliFrame

\* the regions are loaded: from the file named, or by RegionStore.load of the stem of
\* the input, where Path(None) raises
MainLoadRegions ==
    /\ cli_pc = "regions"
    /\ \E exists \in BOOLEAN :
          IF args.regions # None
          THEN IF exists
               THEN /\ reads' = reads \cup {args.regions}
                    /\ cli_pc' = "apply"
                    /\ UNCHANGED <<exit_status, stderr>>
               ELSE Traceback /\ UNCHANGED reads
          ELSE IF args.input = None
          THEN Traceback /\ UNCHANGED reads
          ELSE /\ reads' = IF exists THEN reads \cup {"regions"} ELSE reads
               /\ cli_pc' = "apply"
               /\ UNCHANGED <<exit_status, stderr>>
    /\ UNCHANGED written
    /\ CliFrame

\* apply_redactions(args.input, args.output, ...) and the last print; the input may be
\* missing, and a document cannot be saved to None
MainApply ==
    /\ cli_pc = "apply"
    /\ \E exists \in BOOLEAN :
          IF args.input # None /\ ~exists
          THEN Traceback /\ UNCHANGED <<reads, written>>
          ELSE IF args.output = None
          THEN /\ Traceback
               /\ reads' = IF args.input # None THEN reads \cup {args.input} ELSE reads
               /\ UNCHANGED written
          ELSE /\ reads' = reads \cup {args.input}
               /\ written' = TRUE
               /\ cli_pc' = "exit"
               /\ exit_status' = 0
               /\ UNCHANGED stderr
    /\ CliFrame

NextCli ==
    \/ MainStart
    \/ MainGui
    \/ MainLoadPatterns
    \/ MainLoadExclusions
    \/ MainLoadRegions
    \/ MainApply

SpecCli == InitCli /\ [][NextCli]_vars

\* C24: when an input PDF is given without an output PDF and --gui is not set, main()
\* reads no configuration, no region file and no PDF and writes no output; it ends
\* with a non-zero exit status and the message 'output PDF required in CLI mode'.
MissingOutputIsAnError ==
    (args # NoArgs /\ args.input # None /\ args.output = None /\ ~args.gui) =>
        /\ cli_pc \in {"start", "exit"}
        /\ reads = {}
        /\ ~written
        /\ cli_pc = "exit" => (exit_status # 0 /\ stderr = OutputRequired)

\* main() has ended on the error though --apply, --patterns and --regions were given
MissingOutputIsAnErrorWitness ==
    /\ cli_pc = "exit"
    /\ args.input = "in.pdf"
    /\ args.output = None
    /\ args.apply
    /\ args.patterns # None
    /\ args.regions # None
    /\ exit_status = 2
    /\ stderr = OutputRequired
    /\ reads = {}

(***************************************************************************)
(* redact-4_GUI.py and redact-5a_GUI.py: the undo history of the window,   *)
(* its dirty flag and the autosave timer                                   *)
(*                                                                         *)
(* redact-5a_GUI.py uses the Region dataclass without defining it and its  *)
(* on_canvas_press leaves the edit-region branch out ("existing            *)
(* edit-region logic unchanged"); both are taken from redact-4_GUI.py, the *)
(* version it was edited from.                                             *)
(***************************************************************************)
MaxEvents == 7       \* handler runs per behaviour of SpecVariant

\* HistoryManager(depth=50)
depth == 50

\* the window object: the fields of PDFRedactorGUI that the handlers below use;
\* raised: the handler ended on an exception
App == [regions |-> gui_regions, patterns |-> patterns, exclusions |-> exclusions,
        stack |-> stack, redo_stack |-> redo_stack, dirty |-> dirty, timers |-> timers,
        current_tool |-> current_tool, edit_region |-> edit_region,
        drag_info |-> drag_info, raised |-> FALSE]

\* HistoryManager.push(state)
history_push(a, state) ==
    LET s == Append(a.stack, state)
    IN  [a EXCEPT !.stack = IF Len(s) > depth THEN Tail(s) ELSE s,
                  !.redo_stack = <<>>]

\* HistoryManager.undo(current_state): the manager afterwards and the state returned
history_undo(a, current_state) ==
    IF a.stack # <<>>
    THEN [app |-> [a EXCEPT !.redo_stack = Append(@, current_state), !.stack = Front(@)],
          state |-> Last(a.stack)]
    ELSE [app |-> a, state |-> current_state]

\* HistoryManager.redo(current_state)
history_redo(a, current_state) ==
    IF a.redo_stack # <<>>
    THEN [app |-> [a EXCEPT !.stack = Append(@, current_state), !.redo_stack = Front(@)],
          state |-> Last(a.redo_stack)]
    ELSE [app |-> a, state |-> current_state]

\* JSONStore.write_atomic of redact-4_GUI.py: whatever step raises, the exception is
\* printed and the temporary file removed; the caller never sees it
write_atomic_4(d, path, obj, t, fail) ==
    [disk |-> IF fail = "none" THEN Put(Without(d, Tmp(path)), path, Whole(obj, t))
              ELSE Without(d, Tmp(path)),
     raised |-> FALSE]

\* JSONStore.write_atomic of redact-5a_GUI.py: try/finally, the exception goes on to
\* the caller
write_atomic_5a(d, path, obj, t, fail) ==
    [disk |-> IF fail = "none" THEN Put(Without(d, Tmp(path)), path, Whole(obj, t))
              ELSE Without(d, Tmp(path)),
     raised |-> fail # "none"]

write_atomic_of(v, d, path, obj, t, fail) ==
    IF v = "4" THEN write_atomic_4(d, path, obj, t, fail)
    ELSE write_atomic_5a(d, path, obj, t, fail)

\* _collect_state(): asdict(r) of every region (canvas_id, the id of the rectangle on
\* the canvas, is left out)
_collect_state(a) == [patterns |-> a.patterns, exclusions |-> a.exclusions,
                      regions |-> a.regions]

\* _apply_state(state): the regions are new Region objects, so the object being
\* edited is none of them any more
_apply_state(a, state) ==
    [a EXCEPT !.patterns = state.patterns,
              !.exclusions = state.exclusions,
              !.regions = state.regions,
              !.edit_region = IF @.set /\ @.idx > 0
                              THEN [set |-> TRUE, idx |-> 0, obj |-> a.regions[@.idx]]
                              ELSE @]

\* _mark_dirty(record_undo=True)
_mark_dirty(a) ==
    LET p == history_push(a, _collect_state(a))
    IN  IF ~p.dirty THEN [p EXCEPT !.dirty = TRUE, !.timers = @ + 1] ELSE p

\* _autosave_path()
_autosave_path(stem) == AutosavePath(stem, "full")

\* _flush_cache_if_dirty() at time t; fail is the step of write_atomic that fails
_flush_cache_if_dirty(v, a, d, stem, t, fail) ==
    IF a.dirty /\ stem # <<>>
    THEN LET w == write_atomic_of(v, d, _autosave_path(stem), _collect_state(a), t, fail)
         IN  IF w.raised THEN [app |-> [a EXCEPT !.raised = TRUE], disk |-> w.disk]
             ELSE [app |-> [a EXCEPT !.dirty = FALSE], disk |-> w.disk]
    ELSE [app |-> a, disk |-> d]

\* JSONStore.PREFS_FILE: the name of the program, then "_prefs.json"
PrefsFileOf(v) == <<"redact-", v, "_GUI", "_", "prefs", ".json">>

\* save_prefs(): redact-4_GUI.py catches IOError around a write_atomic that raises
\* nothing, redact-5a_GUI.py catches nothing
save_prefs(v, a, d, t, fail) ==
    LET w == write_atomic_of(v, d, PrefsFileOf(v), "prefs", t, fail)
    IN  [app |-> [a EXCEPT !.raised = w.raised], disk |-> w.disk]

\* _exit_edit_mode()
_exit_edit_mode(a) == [a EXCEPT !.edit_region = NoEdit, !.drag_info = NoDrag]

\* set_tool(tool): redact-5a_GUI.py returns at once when the tool is the current one
set_tool(v, a, tool) ==
    IF v = "5a" /\ a.current_tool = tool THEN a
    ELSE LET e == IF a.edit_region.set THEN _exit_edit_mode(a) ELSE a
         IN  [e EXCEPT !.current_tool = tool]

\* on_canvas_double_click(event) on the rectangle of regions[i]
on_canvas_double_click(v, a, i) ==
    set_tool(v, [a EXCEPT !.edit_region = [set |-> TRUE, idx |-> i, obj |-> a.regions[i]]],
             "EDIT_REGION")

\* on_canvas_press(event): p.hit is what the canvas finds closest to the pointer, a
\* handle of the edited region ("handle", p.handle its tag), its rectangle ("body") or
\* anything else; scale_factor is 1
on_canvas_press(v, a, p) ==
    LET c == [a EXCEPT !.drag_info = NoDrag]
    IN  IF c.current_tool = "PAN" THEN c
        ELSE IF c.current_tool = "EDIT_REGION" /\ c.edit_region.set
        THEN IF p.hit = "handle"
             THEN [c EXCEPT !.drag_info = [keys |-> {"type", "handle", "region"},
                                           type |-> "resize", handle |-> p.handle,
                                           start_x |-> 0, start_y |-> 0]]
             ELSE IF p.hit = "body"
             THEN [c EXCEPT !.drag_info = [keys |-> {"type", "region", "start_x", "start_y"},
                                           type |-> "move", handle |-> <<>>,
                                           start_x |-> p.x, start_y |-> p.y]]
             ELSE set_tool(v, c, "PAN")
        ELSE [c EXCEPT !.drag_info = [keys |-> IF v = "4" THEN {"start_x", "start_y", "tool"}
                                               ELSE {"start_x", "start_y"},
                                      type |-> "None", handle |-> <<>>,
                                      start_x |-> p.x, start_y |-> p.y]]

\* fitz.Rect(r).normalize()
normalize(r) == <<Min({r[1], r[3]}), Min({r[2], r[4]}), Max({r[1], r[3]}), Max({r[2], r[4]})>>

\* the Region object edit_region refers to
EditObject(a) == IF a.edit_region.idx > 0 THEN a.regions[a.edit_region.idx]
                 ELSE a.edit_region.obj

\* self.edit_region.bbox = bbox: the object is changed in place, the list regions
\* with it when the object is one of its elements
SetEditBbox(a, bbox) ==
    LET o == [EditObject(a) EXCEPT !.bbox = bbox]
    IN  [a EXCEPT !.edit_region.obj = o,
                  !.regions = IF a.edit_region.idx > 0
                              THEN [@ EXCEPT ![a.edit_region.idx] = o] ELSE @]

\* _resize_or_move_region(canvas_x, canvas_y)
_resize_or_move_region(a, canvas_x, canvas_y) ==
    IF ~a.edit_region.set THEN a
    ELSE LET r == EditObject(a).bbox
             h == Range(a.drag_info.handle)
         IN  IF a.drag_info.type = "resize"
             THEN SetEditBbox(a, normalize(<<IF "w" \in h THEN canvas_x ELSE r[1],
                                             IF "n" \in h THEN canvas_y ELSE r[2],
                                             IF "e" \in h THEN canvas_x ELSE r[3],
                                             IF "s" \in h THEN canvas_y ELSE r[4]>>))
             ELSE IF a.drag_info.type = "move"
             THEN LET dx == canvas_x - a.drag_info.start_x
                      dy == canvas_y - a.drag_info.start_y
                  IN  [SetEditBbox(a, <<r[1] + dx, r[2] + dy, r[3] + dx, r[4] + dy>>)
                          EXCEPT !.drag_info.start_x = @ + dx,
                                 !.drag_info.start_y = @ + dy]
             ELSE a

\* on_canvas_drag(event)
on_canvas_drag(v, a, canvas_x, canvas_y) ==
    IF a.drag_info.keys = {} THEN a
    ELSE IF a.current_tool = "PAN" THEN a
    ELSE IF a.current_tool = "EDIT_REGION" /\ a.edit_region.set
    THEN _resize_or_move_region(a, canvas_x, canvas_y)
    ELSE a

Abs(n) == IF n < 0 THEN -n ELSE n

\* the drag gestures on_canvas_release ignores: either side under 5 in
\* redact-4_GUI.py, both sides under 5 in redact-5a_GUI.py
TinyDrag(v, w, h) == IF v = "4" THEN w < 5 \/ h < 5 ELSE w < 5 /\ h < 5

DrawTools == {"DRAW_REDACT", "DRAW_EXCLUDE", "DRAW_PROTECT"}

\* self.current_tool.name.split('_')[1].lower()
KindOfTool == [DRAW_REDACT |-> "redact", DRAW_EXCLUDE |-> "exclude",
               DRAW_PROTECT |-> "protect"]

\* on_canvas_release(event) on page 0, with the pointer at (x1, y1)
on_canvas_release(v, a, x1, y1) ==
    IF a.drag_info.keys = {} THEN a
    ELSE IF a.current_tool = "PAN"
    THEN IF v = "4" THEN a ELSE [a EXCEPT !.drag_info = NoDrag]
    ELSE IF a.current_tool = "EDIT_REGION"
    THEN [(IF "region" \in a.drag_info.keys THEN _mark_dirty(a) ELSE a)
             EXCEPT !.drag_info = NoDrag]
    ELSE LET x0 == a.drag_info.start_x
             y0 == a.drag_info.start_y
         IN  IF TinyDrag(v, Abs(x1 - x0), Abs(y1 - y0)) THEN a
             ELSE IF a.current_tool \in DrawTools
             THEN LET new_region == [page |-> 0,
                                     bbox |-> normalize(<<x0, y0, x1, y1>>),
                                     kind |-> KindOfTool[a.current_tool]]
                      m == _mark_dirty(a)
                  IN  [m EXCEPT !.regions = Append(@, new_region), !.drag_info = NoDrag]
             ELSE [a EXCEPT !.drag_info = NoDrag]

\* _delete_region(region_to_delete): list.remove raises ValueError for an object
\* that equals no element of the list (no two rectangles share a canvas_id)
_delete_region(a) ==
    LET m == _mark_dirty(a)
    IN  IF a.edit_region.idx > 0
        THEN [m EXCEPT !.regions = Pop(@, a.edit_region.idx - 1)]
        ELSE [m EXCEPT !.raised = TRUE]

\* delete_selected_item(event) with the focus on the canvas
delete_selected_item(v, a) ==
    IF a.edit_region.set
    THEN LET d == _delete_region(a)
         IN  IF d.raised THEN d ELSE set_tool(v, d, "PAN")
    ELSE a

\* undo_action(event): in redact-5a_GUI.py "new_state is not self._collect_state()"
\* compares with a dict made for the comparison, and is always true
undo_action(a) ==
    LET u == history_undo(a, _collect_state(a))
    IN  _apply_state(u.app, u.state)

\* redo_action(event)
redo_action(a) ==
    LET u == history_redo(a, _collect_state(a))
    IN  _apply_state(u.app, u.state)

\* open_pdf(path): the regions of the autosave file of the document, none without it
\* (no timestamped 'full' file is on the disk)
open_pdf(d, stem) ==
    IF _autosave_path(stem) \in DOMAIN d THEN d[_autosave_path(stem)].data.regions
    ELSE <<>>

(***************************************************************************)
(* SpecVariant: the window of redact-4_GUI.py or of redact-5a_GUI.py with  *)
(* one document open, and MaxEvents events on it                           *)
(***************************************************************************)
R1 == [page |-> 0, bbox |-> <<10, 10, 30, 30>>, kind |-> "redact"]

\* the data directory when the program starts: empty, or with the autosave file an
\* earlier session left
VariantDisks ==
    {EmptyDict,
     Put(EmptyDict, _autosave_path(Report),
         Whole([patterns |-> [keywords |-> <<>>, passages |-> <<>>], exclusions |-> <<>>,
                regions |-> <<R1>>], 0))}

\* the tools picked from the toolbar or by their keys (EDIT_REGION is none of them)
VariantTools == {"PAN", "DRAW_REDACT", "DRAW_EXCLUDE"}

\* where the button goes down and what the canvas finds there
PressChoices ==
    {[hit |-> "handle", handle |-> <<"s", "e">>, x |-> 30, y |-> 30],
     [hit |-> "body", handle |-> <<>>, x |-> 20, y |-> 20],
     [hit |-> "other", handle |-> <<>>, x |-> 50, y |-> 50]}

\* where the pointer is dragged to
DragPoints == {<<40, 40>>}

\* where the button goes up
ReleasePoints == {<<40, 40>>, <<52, 50>>}

\* the step of write_atomic that fails
VariantFailures == {"none", "write", "replace"}

\* __init__ and open_pdf(path) of the document "report", at time 10
InitVariant ==
    /\ InitStore
    /\ disk \in VariantDisks
    /\ InitGhosts
    /\ InitNoPass
    /\ InitNoPreview
    /\ InitNoCli
    /\ variant \in {"4", "5a"}
    /\ presets = EmptyDict
    /\ drawing_mode = "redact"
    /\ tool_var = "PAN"
    /\ mode_var = "redact"
    /\ gui_regions = open_pdf(disk, pdf_stem)
    /\ stack = <<>>
    /\ redo_stack = <<>>
    /\ dirty = FALSE
    /\ timers = 0
    /\ current_tool = "PAN"
    /\ edit_region = NoEdit
    /\ drag_info = NoDrag
    /\ beforeDrag = NoPress

\* the window after a handler ran; bd is the button afterwards, run whether the
\* window is still open
VariantBecomes(a, d, op, bd, run) ==
    /\ gui_regions' = a.regions
    /\ patterns' = a.patterns
    /\ exclusions' = a.exclusions
    /\ stack' = a.stack
    /\ redo_stack' = a.redo_stack
    /\ dirty' = a.dirty
    /\ timers' = a.timers
    /\ current_tool' = a.current_tool
    /\ edit_region' = a.edit_region
    /\ drag_info' = a.drag_info
    /\ disk' = d
    /\ ret' = IF a.raised THEN "raise" ELSE "None"
    /\ lastOp' = op
    /\ ops' = ops + 1
    /\ beforeDrag' = bd
    /\ running' = run
    /\ UNCHANGED <<pdf_stem, regions, protect, history, future, last_autosave, now>>
    /\ UNCHANGED <<muts, runVars, target>>
    /\ UNCHANGED <<query, found, changedBy, changedAt, writesSince, savedClean, saves>>
    /\ UNCHANGED <<doc, regex_patterns, use_ocr, failing, burn, all_patterns, pc>>
    /\ UNCHANGED <<previewVars, cliVars, variant, toolVars>>

\* an event may be delivered: the window is open and the bound is not reached
Deliverable == running /\ ops < MaxEvents

\* a tool is picked from the toolbar
SelectTool ==
    /\ Deliverable
    /\ ~beforeDrag.down
    /\ \E tool \in VariantTools :
           VariantBecomes(set_tool(variant, App, tool), disk, "set_tool", beforeDrag, TRUE)

\* a double click on the rectangle of a region
CanvasDoubleClick ==
    /\ Deliverable
    /\ ~beforeDrag.down
    /\ \E i \in 1..Len(gui_regions) :
           VariantBecomes(on_canvas_double_click(variant, App, i), disk, "double_click",
                          beforeDrag, TRUE)

\* the button goes down; a handle or the rectangle of the edited region is under the
\* pointer only while that region is drawn, that is while it is in the list
CanvasPress ==
    /\ Deliverable
    /\ ~beforeDrag.down
    /\ \E p \in PressChoices :
           /\ p.hit = "handle" => edit_region.set
           /\ p.hit = "body" => edit_region.set /\ edit_region.idx > 0
           /\ VariantBecomes(on_canvas_press(variant, App, p), disk, "press",
                             [down |-> TRUE, state |-> _collect_state(App)], TRUE)

\* the pointer moves with the button down
CanvasDrag ==
    /\ Deliverable
    /\ beforeDrag.down
    /\ \E pt \in DragPoints :
           VariantBecomes(on_canvas_drag(variant, App, pt[1], pt[2]), disk, "drag",
                          beforeDrag, TRUE)

\* the button goes up
CanvasRelease ==
    /\ Deliverable
    /\ beforeDrag.down
    /\ \E pt \in ReleasePoints :
           VariantBecomes(on_canvas_release(variant, App, pt[1], pt[2]), disk, "release",
                          [beforeDrag EXCEPT !.down = FALSE], TRUE)

\* the Delete key with the focus on the canvas
DeleteSelectedItem ==
    /\ Deliverable
    /\ ~beforeDrag.down
    /\ edit_region.set
    /\ VariantBecomes(delete_selected_item(variant, App), disk, "delete", beforeDrag, TRUE)

UndoAction ==
    /\ Deliverable
    /\ ~beforeDrag.down
    /\ VariantBecomes(undo_action(App), disk, "undo", beforeDrag, TRUE)

RedoAction ==
    /\ Deliverable
    /\ ~beforeDrag.down
    /\ VariantBecomes(redo_action(App), disk, "redo", beforeDrag, TRUE)

\* a callback root.after(3000, self._flush_cache_if_dirty) comes due
FlushTimer ==
    /\ Deliverable
    /\ timers > 0
    /\ \E fail \in VariantFailures :
           LET f == _flush_cache_if_dirty(variant, [App EXCEPT !.timers = @ - 1], disk,
                                          pdf_stem, now, fail)
           IN  VariantBecomes(f.app, f.disk, "flush", beforeDrag, TRUE)

\* on_closing(): the flush, save_prefs() and root.destroy(); an exception ends the
\* handler and leaves the window open
OnClosing ==
    /\ Deliverable
    /\ ~beforeDrag.down
    /\ \E fail \in VariantFailures, pfail \in VariantFailures :
           LET f == _flush_cache_if_dirty(variant, App, disk, pdf_stem, now, fail)
               p == save_prefs(variant, f.app, f.disk, now, pfail)
           IN  IF f.app.raised
               THEN VariantBecomes(f.app, f.disk, "on_closing", beforeDrag, TRUE)
               ELSE VariantBecomes(p.app, p.disk, "on_closing", beforeDrag, ~p.app.raised)

NextVariant ==
    \/ SelectTool
    \/ CanvasDoubleClick
    \/ CanvasPress
    \/ CanvasDrag
    \/ CanvasRelease
    \/ DeleteSelectedItem
    \/ UndoAction
    \/ RedoAction
    \/ FlushTimer
    \/ OnClosing

SpecVariant == InitVariant /\ [][NextVariant]_vars

(***************************************************************************)
(* Properties of the dirty flag and of the snapshots                       *)
(***************************************************************************)
\* the autosave file holds the state d as a complete file
FullAutosaveHolds(files, stem, state) ==
    /\ _autosave_path(stem) \in DOMAIN files
    /\ files[_autosave_path(stem)].whole
    /\ files[_autosave_path(stem)].data = state

\* C29: the dirty flag is cleared only by a write that succeeded: whenever a step
\* clears dirty, the autosave file then holds the state of the window; a flush whose
\* write fails leaves dirty set, so that a later flush writes the changes
DirtyClearedOnlyByWrite ==
    [][ (dirty /\ ~dirty') => FullAutosaveHolds(disk', pdf_stem, _collect_state(App)') ]_vars

NoFailedAutosave == Tmp(AutosavePath(pdf_stem, "regions")) \notin DOMAIN disk

\* C31: after add, remove and update calls (toggle_region_kind makes a remove and an
\* add), once the cadence has passed with no further mutation, the autosave file
\* holds the regions and protect of the store, also when the last add came less than
\* five seconds after the previous autosave write.
EventualPersistence ==
    (/\ changedBy \in Mutations \cup {"toggle"}
     /\ now - changedAt > Cadence
     /\ NoFailedAutosave) => AutosaveHolds

\* the lists of page 0 after the rectangle at index of the list of kind moved to the
\* end of the other list
Moved(state, index, kind) ==
    LET from  == IF kind = "redact" THEN state.regions ELSE state.protect
        to    == IF kind = "redact" THEN state.protect ELSE state.regions
        rect  == from[0][index + 1]
        from2 == [from EXCEPT ![0] = Pop(@, index)]
        to2   == SetDefaultAppend(to, 0, rect)
    IN  IF kind = "redact" THEN [regions |-> from2, protect |-> to2]
        ELSE [regions |-> to2, protect |-> from2]

\* C35: toggle_region_kind is one user action: it moves exactly one rectangle between
\* the Redact and the Protect list of the page, and one undo() after it brings back
\* the state from before the toggle.
ToggleIsOneAction ==
    /\ [][ (lastOp' = "toggle" /\ ret' = "None")
              => State' = Moved(State, target'[2], target'[3]) ]_vars
    /\ [][ (lastOp = "toggle" /\ ret = "None" /\ lastOp' = "undo")
              => State' = runPre[1] ]_vars

\* C32: a remove or update that returns False leaves history and future as they
\* were: no snapshot is pushed, and a redo available before the call is still
\* available after it.
FailedCallKeepsStacks ==
    [][ (lastOp' \in {"remove", "update"} /\ ret' = "False")
           => (history' = history /\ future' = future) ]_vars

\* C33: an empty string in the exclusion list has no effect: the rectangles burned in
\* with the exclusions E and those burned in with E and "" are the same.
EmptyExclusionNoEffect ==
    pc = "done" =>
        Rects(apply_redactions(doc, regions, protect, patterns, Append(exclusions, Empty),
                               regex_patterns, use_ocr, failing)) = Rects(burn)

(***************************************************************************)
(* SpecTool: the tool and the drawing mode of the window of                *)
(* redact_unified.py, set from the toolbar and the keyboard, and the       *)
(* rectangles drawn with them                                              *)
(***************************************************************************)
MaxGestures == 4     \* clicks, key presses and drawn rectangles per behaviour of SpecTool

\* the fields of the window that the tool handlers use
Toolbar == [current_tool |-> current_tool, tool_var |-> tool_var, mode_var |-> mode_var,
            drawing_mode |-> drawing_mode]

\* set_tool_mode(mode)
set_tool_mode(w, mode) == [w EXCEPT !.current_tool = mode, !.tool_var = mode]

\* on_tool_change(), the command of the Tool Mode radio buttons
on_tool_change(w) ==
    LET mode == w.tool_var
        m    == IF mode = "DRAW_REDACT"
                THEN [w EXCEPT !.mode_var = "redact", !.drawing_mode = "redact"]
                ELSE IF mode = "DRAW_PROTECT"
                THEN [w EXCEPT !.mode_var = "protect", !.drawing_mode = "protect"]
                ELSE w
    IN  set_tool_mode(m, mode)

\* on_mode_change(), the command of the Draw Mode radio buttons
on_mode_change(w) ==
    LET m == [w EXCEPT !.drawing_mode = w.mode_var]
    IN  IF m.drawing_mode = "redact" THEN set_tool_mode(m, "DRAW_REDACT")
        ELSE set_tool_mode(m, "DRAW_PROTECT")

\* the window after a tool handler ran
ToolbarBecomes(w, op) ==
    /\ current_tool' = w.current_tool
    /\ tool_var' = w.tool_var
    /\ mode_var' = w.mode_var
    /\ drawing_mode' = w.drawing_mode
    /\ lastOp' = op
    /\ ops' = ops + 1
    /\ UNCHANGED <<storeVars, ret, muts, runVars, target, persistVars, engineVars,
                   previewVars, cliVars>>
    /\ UNCHANGED <<variant, stack, redo_stack, dirty, timers, edit_region, drag_info,
                   beforeDrag, gui_regions, presets>>

\* the values of the Tool Mode radio buttons: Pan, Text, Draw
ToolRadioValues == {"PAN", "TEXT_SELECT", "DRAW_REDACT"}

\* the tools of the keys space, t, r and p
ToolKeys == {"PAN", "TEXT_SELECT", "DRAW_REDACT", "DRAW_PROTECT"}

\* a click on a Tool Mode radio button: Tk sets tool_var, then runs the command
ToolRadio ==
    /\ ops < MaxGestures
    /\ \E value \in ToolRadioValues :
           ToolbarBecomes(on_tool_change([Toolbar EXCEPT !.tool_var = value]), "tool_radio")

\* a click on a Draw Mode radio button
ModeRadio ==
    /\ ops < MaxGestures
    /\ \E value \in {"redact", "protect"} :
           ToolbarBecomes(on_mode_change([Toolbar EXCEPT !.mode_var = value]), "mode_radio")

\* one of the keys bound to set_tool_mode
ToolKey ==
    /\ ops < MaxGestures
    /\ \E mode \in ToolKeys : ToolbarBecomes(set_tool_mode(Toolbar, mode), "tool_key")

\* a rectangle wider and higher than 5 is drawn on page 0: on_canvas_press,
\* on_canvas_drag and on_canvas_release with a draw tool, that is start_draw,
\* update_draw and end_draw
DrawRectangle ==
    /\ ops < MaxGestures
    /\ current_tool \in {"DRAW_REDACT", "DRAW_PROTECT"}
    /\ Becomes(add(Store, disk, now, 0, DrawnBox, drawing_mode, "none"))
    /\ lastOp' = "draw"
    /\ ops' = ops + 1
    /\ UNCHANGED <<muts, runVars, target, persistVars>>

NextTool == ToolRadio \/ ModeRadio \/ ToolKey \/ DrawRectangle

SpecTool == Init /\ [][NextTool]_vars

\* C34: tool and drawing mode agree in every state reached through the radio buttons
\* and the keys: with the tool DRAW_PROTECT the drawing mode is 'protect', with
\* DRAW_REDACT it is 'redact'; a rectangle drawn with the Protect tool is stored as a
\* Protect region and not as a Redact region.
ToolAndModeAgree ==
    /\ [](current_tool = "DRAW_PROTECT" => drawing_mode = "protect")
    /\ [](current_tool = "DRAW_REDACT" => drawing_mode = "redact")
    /\ [][ (lastOp' = "draw" /\ current_tool = "DRAW_PROTECT")
              => (regions' = regions /\ protect' # protect) ]_vars

(***************************************************************************)
(* Properties of the flush timer of redact-4_GUI.py and redact-5a_GUI.py   *)
(***************************************************************************)
\* C36: in the timer variants a flush is pending whenever dirty is true, in every
\* reachable state, also after an autosave write that raised; hence every mutation
\* is eventually written to the autosave file while the window stays open.
FlushPendingWhenDirty == (running /\ dirty) => timers > 0

(***************************************************************************)
(* Properties of the two stacks of the RegionStore                         *)
(***************************************************************************)
\* C37: the undo and the redo stack together never hold more than MAX_HISTORY
\* snapshots: len(history) + len(future) <= 50 in every reachable state, and undo
\* and redo leave that sum unchanged.
StacksTogetherBounded ==
    /\ [](Len(history) + Len(future) <= MAX_HISTORY)
    /\ [][ lastOp' \in {"undo", "redo"}
              => Len(history') + Len(future') = Len(history) + Len(future) ]_vars

\* the stacks hold MAX_HISTORY snapshots together, some of them undone, after a redo
StacksTogetherFull ==
    /\ lastOp = "redo"
    /\ ret = "True"
    /\ Len(future) > 0
    /\ Len(history) + Len(future) = MAX_HISTORY
    /\ Len(runPre) > MAX_HISTORY

(***************************************************************************)
(* SpecPresets: the presets of the window of redact_unified.py and the     *)
(* presets file                                                            *)
(***************************************************************************)
MaxPresetOps == 4    \* presets saved and deleted and windows opened per behaviour of SpecPresets

PRESETS_FILE == <<"redact_unified", "_", "presets", ".json">>

\* dict.update(other)
DictUpdate(d, other) ==
    [k \in (DOMAIN d) \cup (DOMAIN other) |-> IF k \in DOMAIN other THEN other[k] ELSE d[k]]

\* load_presets(): the built-in presets, and over them those of the presets file
\* when it exists and parses
load_presets(d) ==
    IF PRESETS_FILE \in DOMAIN d /\ d[PRESETS_FILE].whole
    THEN DictUpdate(REDACTION_PRESETS, d[PRESETS_FILE].data)
    ELSE REDACTION_PRESETS

\* save_presets(presets) at time t: the presets that are not built-in are written
\* when there are any
save_presets(d, p, t) ==
    LET user_presets == [k \in (DOMAIN p) \ (DOMAIN REDACTION_PRESETS) |-> p[k]]
    IN  IF DOMAIN user_presets # {} THEN write_atomic(d, PRESETS_FILE, user_presets, t, "none")
        ELSE d

\* the names typed into the Save as Preset dialog, one of them that of a built-in preset
PresetNames == {"Mine", "Other", "Financial Data"}

\* the patterns of the window when a preset is saved
PresetPatterns == {[keywords |-> <<>>, passages |-> <<>>],
                   [keywords |-> <<"Tom">>, passages |-> <<>>]}

PresetFrame ==
    /\ ops' = ops + 1
    /\ UNCHANGED <<pdf_stem, regions, protect, history, future, last_autosave, now, muts,
                   runVars, persistVars, engineVars, previewVars, cliVars, variantVars,
                   drawing_mode, tool_var, mode_var>>

\* save() of save_as_preset with a name that is not empty
SaveAsPreset ==
    /\ ops < MaxPresetOps
    /\ \E name \in PresetNames, pats \in PresetPatterns :
           LET preset == [name |-> name, patterns |-> pats, created |-> now]
               p      == Put(presets, name, preset)
           IN  /\ presets' = p
               /\ disk' = save_presets(disk, p, now)
               /\ target' = name
    /\ ret' = "None"
    /\ lastOp' = "save_as_preset"
    /\ PresetFrame

\* delete_selected_preset() with a preset selected in the list: a built-in one is
\* refused, any other is deleted once the user confirms
DeleteSelectedPreset ==
    /\ ops < MaxPresetOps
    /\ \E preset_name \in DOMAIN presets, yes \in BOOLEAN :
           /\ target' = preset_name
           /\ IF preset_name \in DOMAIN REDACTION_PRESETS
              THEN /\ ret' = "refused"
                   /\ UNCHANGED <<presets, disk>>
              ELSE IF yes
              THEN /\ ret' = "deleted"
                   /\ presets' = Without(presets, preset_name)
                   /\ disk' = save_presets(disk, Without(presets, preset_name), now)
              ELSE /\ ret' = "kept"
                   /\ UNCHANGED <<presets, disk>>
    /\ lastOp' = "delete_selected_preset"
    /\ PresetFrame

\* the window is closed and opened again: __init__ loads the presets
OpenWindow ==
    /\ ops < MaxPresetOps
    /\ presets' = load_presets(disk)
    /\ lastOp' = "open_window"
    /\ UNCHANGED <<disk, ret, target>>
    /\ PresetFrame

NextPresets == SaveAsPreset \/ DeleteSelectedPreset \/ OpenWindow

SpecPresets == Init /\ [][NextPresets]_vars

\* C38: preset deletion is durable: after delete_selected_preset removed a
\* user-defined preset, a following load_presets() does not return it, also when it
\* was the only user-defined preset; the built-in presets are always returned by
\* load_presets().
PresetDeletionDurable ==
    /\ [](DOMAIN REDACTION_PRESETS \subseteq DOMAIN load_presets(disk))
    /\ []((lastOp = "delete_selected_preset" /\ ret = "deleted")
              => target \notin DOMAIN load_presets(disk))

(***************************************************************************)
(* Properties of the file lookup of load()                                 *)
(***************************************************************************)
\* the files autosave() and save() of the store of stem write
WrittenFor(d, stem, purpose) ==
    {AutosavePath(stem, purpose)} \cup TimestampedFiles(d, stem, purpose)

\* C39: snapshot isolation between documents: the file that load(stem) reads, the one
\* find_latest_file(stem, 'regions') returns, was written for that stem and never for
\* another document, also when one stem extends the other ('report' and
\* 'report_regions').
LoadReadsOwnSnapshot ==
    (lastOp = "find_latest_file" /\ found # NoPath)
        => found \in WrittenFor(disk, query[1], query[2])

====
